---- MODULE Spec2Model ----
(***************************************************************************)
(* Supervision core of serv00_ct8_nezha: the process heartbeat units and   *)
(* their polling loop, the monitor units with their result cache, the      *)
(* fleet propagation of heartbeats over SSH and the trigger token that     *)
(* travels with it, the monitor-URL check, the event bus, the service      *)
(* manager, the loaders of the list files, concurrent check() calls on one *)
(* unit, and the stopping of a polling loop.                               *)
(***************************************************************************)
EXTENDS Integers, Sequences, FiniteSets, TLC

\* ------------------------------------------------------------------ bounds
StartTime == 1000     \* value of time.time() when the services are constructed
MaxTime == 1070       \* the heartbeat loop's clock is not advanced beyond this
MonMaxTime == 1330    \* the monitors' clock is not advanced beyond this

\* ------------------------------------------------------- program constants
MaxFailures == 3              \* ProcessHeartbeat.max_failures
DefaultCheckInterval == 60    \* ProcessHeartbeat check_interval default
GraceSleep == 5               \* time.sleep(5) after the restart command
LoopSleep == 10               \* time.sleep(10) at the end of a heartbeat pass

\* check_interval values a unit may be configured with: below the grace
\* sleep, between the grace sleep and the pass period, and the default.
CheckIntervals == {4, 10, DefaultCheckInterval}

\* HeartbeatService.heartbeats in insertion order (dict iteration order).
UnitOrder == <<"dashboard", "agent">>
Units == {UnitOrder[i] : i \in 1..Len(UnitOrder)}

Min(a, b) == IF a < b THEN a ELSE b

VARIABLES
    now,        \* time.time()
    up,         \* up[u]: pgrep finds the process of unit u
    hb,         \* hb[u]: fields of the ProcessHeartbeat of unit u
    pc,         \* position of the HeartbeatService._run thread
    hf,         \* the handle_failure() call in progress or last returned
    lastCheck,  \* the most recent ProcessHeartbeat.check() call
    opEvents,   \* events published by the most recent check() call
    passLog,    \* per unit: failing passes of the loop since construction
    pm,         \* fields of the ProcessMonitor of the dashboard process
    um,         \* fields of the UrlMonitor
    site,       \* what the monitored URL answers: a status code, 0 = no answer
    target,     \* the unit whose check() the caller of this run calls
    callLog,    \* the most recent check() call on a monitor or heartbeat unit
    liveLog,    \* per unit: the most recent check() call that probed
    cachedLog,  \* per unit: the result served from the cache since that probe
    cycle,      \* the fleet propagation (or key copy) cycle in progress
    entries,    \* the host entries the cycle runs over, in file order
    task,       \* task[i]: where the work on entries[i] stands
    remoteCalls,\* remoteCalls[i]: remote operations started for entries[i]
    failures,   \* remote operations of the cycle that failed or raised
    fleet,      \* fleet[h]: how host h of a fleet of peers is set up
    inbox,      \* remote invocations of heart_beat_entry.sh not yet run
    lastRun,    \* the most recent run of the heartbeat module
    received,   \* received[h]: invocations sent to h since the last timer run
    wall,       \* hours since the first monitor-URL check (Asia/Shanghai clock)
    gate,       \* content of tmp/ok_notify_hour_file: an hour, -1 = none
    urlCfg,     \* sys.conf of the host: OK_NOTIFY_HOURS, channels, code line
    urlLast,    \* the most recent monitor-URL check
    hours,      \* successes and success notifications of this hour and the last
    bus,        \* EventBus._handlers: per event kind, the handlers in order
    lastOp,     \* the most recent call on the event bus
    lastPub,    \* that call, when it is an EventBus.publish
    sm,         \* fields of the ServiceManager
    subs,       \* per subsystem with a polling loop: flags and live threads
    lastCall,   \* the most recent call on the ServiceManager or a subsystem
    watch,      \* the most recent pass of ServiceManager._watch_services
    loopPass,   \* the most recent pass of a subsystem's polling loop
    listFile,   \* the host or heartbeat list file being loaded, and its loader
    load,       \* where the loader's pass over the lines of the file stands
    race,       \* one process unit and the threads inside its check()
    lp          \* a polling loop thread and the stop() call that ends it

hbVars == <<now, up, hb, pc, hf, lastCheck, opEvents, passLog>>
monVars == <<pm, um, site, target, callLog, liveLog, cachedLog>>
fleetVars == <<cycle, entries, task, remoteCalls, failures>>
runVars == <<fleet, inbox, lastRun, received>>
urlVars == <<wall, gate, urlCfg, urlLast, hours>>
svcVars == <<bus, lastOp, lastPub, sm, subs, lastCall, watch, loopPass>>
lateVars == <<listFile, load, race, lp>>

\* What the actions of each part leave alone.
beyondHB == <<monVars, fleetVars, runVars, urlVars, svcVars, lateVars>>
beyondMon == <<fleetVars, runVars, urlVars, svcVars, lateVars>>
beyondFleet == <<hbVars, monVars, runVars, urlVars, svcVars, lateVars>>
beyondRuns == <<hbVars, monVars, fleetVars, urlVars, svcVars, lateVars>>
beyondUrl == <<hbVars, monVars, fleetVars, runVars, svcVars, lateVars>>
beyondSvc == <<hbVars, monVars, fleetVars, runVars, urlVars, lateVars>>
beyondLate == <<hbVars, monVars, fleetVars, runVars, urlVars, svcVars>>

vars == <<hbVars, monVars, fleetVars, runVars, urlVars, svcVars, lateVars>>

\* None, as parse_heart_beat_extra_info returns it.
NoInfo ==
    [kind |-> "None", type |-> "", hostname |-> "", port |-> 0, username |-> ""]

\* No run of the heartbeat module has happened.
NoRun ==
    [host |-> "none", origin |-> "none", token |-> <<>>, info |-> NoInfo,
     propagated |-> FALSE, monitor_checked |-> FALSE, ended |-> "none",
     sent |-> 0]

\* No propagation cycle runs.
FleetIdle ==
    /\ cycle = [mode |-> "none", n |-> 0, at |-> 0, state |-> "idle"]
    /\ entries = <<>>
    /\ task = <<>>
    /\ remoteCalls = <<>>
    /\ failures = 0

\* No fleet of peers is set up.
RunsIdle ==
    /\ fleet = <<>>
    /\ inbox = {}
    /\ lastRun = NoRun
    /\ received = [root |-> "none", count |-> <<>>]

\* No monitor-URL check has been made.
NoUrlCheck ==
    [dns |-> "none", http |-> "none", http_calls |-> 0,
     notified |-> <<>>, delivered |-> <<>>, gate_before |-> -1,
     ended |-> "none"]

NoHours == [cur |-> [succ |-> 0, ok |-> 0], prev |-> [succ |-> 0, ok |-> 0]]

UrlIdle ==
    /\ wall = 0
    /\ gate = -1
    /\ urlCfg = [ok_hours |-> "", channels |-> <<>>, variant |-> "none"]
    /\ urlLast = NoUrlCheck
    /\ hours = NoHours

\* No call has been made on the event bus.
NoOp == [op |-> "none", kind |-> "none", handler |-> "none", registered |-> FALSE]

NoPublish ==
    [kind |-> "none", payload |-> "none", atCall |-> <<>>, invoked |-> <<>>,
     raised |-> {}, notified |-> <<>>, escaped |-> FALSE, defaults |-> FALSE,
     initialized |-> FALSE]

\* ServiceManager.__init__
NewServiceManager ==
    [services_initialized |-> FALSE, services_started |-> FALSE,
     stop_requested |-> FALSE, watch_threads |-> 0]

\* MonitorManager.__init__ / HeartbeatService.__init__
NewSubsystem == [running |-> FALSE, stop_requested |-> FALSE, threads |-> 0]

NoSvcCall ==
    [op |-> "none", target |-> "none", ret |-> "none", was_initialized |-> FALSE,
     was_running |-> FALSE, started |-> <<>>, events |-> <<>>]

NoWatchPass == [examined |-> <<>>, restarted |-> {}, ended |-> "none"]

NoLoopPass == [loop |-> "none", registered |-> <<>>, checked |-> <<>>,
               ended |-> "none"]

\* No service manager has been imported: nothing is subscribed or running.
SvcIdle ==
    /\ bus = <<>>
    /\ lastOp = NoOp
    /\ lastPub = NoPublish
    /\ sm = NewServiceManager
    /\ subs = <<>>
    /\ lastCall = NoSvcCall
    /\ watch = NoWatchPass
    /\ loopPass = NoLoopPass

\* No list file has been opened.
NoLoad ==
    [pos |-> 0, config_entries |-> <<>>, warnings |-> <<>>,
     invalid_lines |-> <<>>, state |-> "none"]

\* No thread is inside a unit's check().
NoRace == [unit |-> <<>>, start |-> <<>>, thr |-> <<>>, is_up |-> FALSE, probes |-> 0]

\* No polling loop thread has been created.
NoLoops == [loop |-> "none", at |-> "none", idx |-> 0, sleep |-> 0,
            stop_requested |-> FALSE, running |-> FALSE, stop |-> "none",
            waited |-> 0]

LateIdle ==
    /\ listFile = [parser |-> "none", lines |-> <<>>]
    /\ load = NoLoad
    /\ race = NoRace
    /\ lp = NoLoops

\* ---------------------------------------------------------------- heartbeat
\* ProcessHeartbeat.__init__
NewHeartbeat(interval) ==
    [check_interval |-> interval, last_check_time |-> 0,
     last_status |-> FALSE, failure_count |-> 0]

\* The cache test of ProcessHeartbeat.check
HBCacheHit(u, t) == t - hb[u].last_check_time < hb[u].check_interval

\* pgrep through run_shell_command with its default capture_output=False:
\* the exit code is 0 iff a process matches, and stdout is None.
PGrep(u) == [code |-> IF up[u] THEN 0 ELSE 1, stdout |-> "None"]

\* ProcessHeartbeat.check called at time t: the outcome ("ret" with a value, or "raise"), the
\* unit's fields afterwards, whether a probe was made and the message kind.
\* With code = 0 the test evaluates stdout.strip() on None: AttributeError.
HBCheck(u, t) ==
    IF HBCacheHit(u, t)
    THEN [outcome |-> "ret", value |-> hb[u].last_status, live |-> FALSE,
          msg |-> <<"cached", hb[u].last_status>>, unit |-> hb[u]]
    ELSE LET stamped == [hb[u] EXCEPT !.last_check_time = t]
             r == PGrep(u)
         IN IF r.code = 0
            THEN IF r.stdout = "None"
                 THEN [outcome |-> "raise", value |-> FALSE, live |-> TRUE,
                       msg |-> <<"AttributeError">>, unit |-> stamped]
                 ELSE [outcome |-> "ret", value |-> TRUE, live |-> TRUE,
                       msg |-> <<"exists">>,
                       unit |-> [stamped EXCEPT !.last_status = TRUE,
                                                !.failure_count = 0]]
            ELSE [outcome |-> "ret", value |-> FALSE, live |-> TRUE,
                  msg |-> <<"missing">>,
                  unit |-> [stamped EXCEPT !.last_status = FALSE,
                                           !.failure_count = @ + 1]]

\* Record of a check() call, kept for the properties.
CheckRecord(u, c, t) ==
    [unit |-> u, live |-> c.live, outcome |-> c.outcome, value |-> c.value,
     was_up |-> up[u], fc_before |-> hb[u].failure_count,
     since_live |-> t - hb[u].last_check_time]

NoCheck ==
    [unit |-> "none", live |-> FALSE, outcome |-> "none", value |-> FALSE,
     was_up |-> FALSE, fc_before |-> 0, since_live |-> 0]

NoCall ==
    [unit |-> "none", fc0 |-> 0, status0 |-> FALSE, restarts |-> 0,
     events |-> <<>>, ret |-> "none", up_after_grace |-> "none",
     recheck |-> "none"]

NoPasses == [failing |-> 0, completed |-> 0, restartAt |-> {}, exceededAt |-> {},
             stayDown |-> TRUE]

NextUnit(i) ==
    IF i < Len(UnitOrder) THEN [at |-> "check", idx |-> i + 1]
    ELSE [at |-> "sleep", idx |-> 0]

\* Variant of the threshold test that gives up one failure early.
Exceeded_AtThreshold(u) == hb[u].failure_count >= MaxFailures

\* The threshold test of ProcessHeartbeat.handle_failure
Exceeded(u) == hb[u].failure_count > MaxFailures

\* ----------------------------------------------------------------- monitors
DefaultMonInterval == 300     \* check_interval default of both monitor kinds
DefaultExpectedCount == 1     \* ProcessMonitor expected_count default
HttpOk == 200                 \* UrlMonitor expected_status default
MonLoopSleep == 30            \* time.sleep(30) at the end of a monitor pass

MonIntervals == {45, DefaultMonInterval}
ExpectedCounts == {0, DefaultExpectedCount}
ExpectedStatuses == {0, HttpOk}
SiteAnswers == {0, HttpOk, 500}
ResponseTimes == {7, 12}

MonUnits == {"pm", "um"} \cup Units

\* ProcessMonitor.__init__
NewProcessMonitor(expected, interval) ==
    [check_interval |-> interval, expected_count |-> expected,
     last_check_time |-> 0, process_count |-> 0, is_running |-> FALSE,
     last_message |-> <<>>, last_details |-> <<>>]

\* UrlMonitor.__init__
NewUrlMonitor(expected, interval) ==
    [check_interval |-> interval, expected_status |-> expected,
     last_check_time |-> 0, last_status_code |-> 0, last_response_time |-> 0]

\* Variant of the cache test whose cache expires at half the interval.
PMCacheHit_Early(t) == 2 * (t - pm.last_check_time) < pm.check_interval

\* The cache test of ProcessMonitor.check_detailed
PMCacheHit(t) == t - pm.last_check_time < pm.check_interval

\* ProcessMonitor.check_detailed called at time t. The probe is the pgrep of
\* the heartbeat unit of the same process; with exit code 0 the test
\* evaluates stdout.strip() on None: AttributeError.
PMCheckDetailed(t) ==
    IF PMCacheHit(t)
    THEN [outcome |-> "ret", live |-> FALSE, events |-> <<>>, unit |-> pm,
          result |-> [ok |-> pm.process_count >= pm.expected_count,
                      msg |-> <<"cached", pm.process_count>>,
                      details |-> [name |-> "nezha-dashboard",
                                   count |-> pm.process_count,
                                   expected |-> pm.expected_count,
                                   last_check |-> pm.last_check_time]]]
    ELSE LET stamped == [pm EXCEPT !.last_check_time = t]
             r == PGrep("dashboard")
         IN IF r.code = 0 /\ r.stdout = "None"
            THEN [outcome |-> "raise", live |-> TRUE, events |-> <<>>,
                  unit |-> stamped, result |-> <<"AttributeError">>]
            ELSE LET counted == [stamped EXCEPT !.process_count = 0,
                                                !.is_running = FALSE]
                     is_ok == counted.process_count >= counted.expected_count
                     message == <<"live", counted.process_count,
                                  counted.expected_count>>
                     details == [name |-> "nezha-dashboard",
                                 count |-> counted.process_count,
                                 expected |-> counted.expected_count,
                                 last_check |-> counted.last_check_time,
                                 pid_list |-> <<>>]
                 IN [outcome |-> "ret", live |-> TRUE,
                     events |-> IF is_ok THEN <<>> ELSE <<"warning">>,
                     unit |-> [counted EXCEPT !.last_message = message,
                                              !.last_details = details],
                     result |-> [ok |-> is_ok, msg |-> message,
                                 details |-> details]]

\* Variant of the cached verdict that accepts any answer of the site.
UMCachedOk_AnyAnswer == um.last_status_code # 0

\* The verdict UrlMonitor.check derives from the cached status code
UMCachedOk == um.last_status_code = um.expected_status

\* UrlMonitor.check storing what the probe observed
UMStore(m, code, rt) ==
    [m EXCEPT !.last_status_code = code, !.last_response_time = rt]

\* The cache test of UrlMonitor.check
UMCacheHit(t) == t - um.last_check_time < um.check_interval

\* UrlMonitor.check called at time t; rt is the measured response time.
\* site = 0 stands for requests.get raising a RequestException.
UMCheck(t, rt) ==
    IF UMCacheHit(t)
    THEN [outcome |-> "ret", live |-> FALSE, events |-> <<>>, unit |-> um,
          result |-> [ok |-> UMCachedOk,
                      msg |-> <<"cached", um.last_status_code>>,
                      details |-> [url |-> "url",
                                   status_code |-> um.last_status_code,
                                   expected_status |-> um.expected_status,
                                   response_time |-> um.last_response_time,
                                   last_check |-> um.last_check_time]]]
    ELSE LET stamped == [um EXCEPT !.last_check_time = t]
         IN IF site # 0
            THEN LET got == UMStore(stamped, site, rt)
                     is_ok == got.last_status_code = got.expected_status
                 IN [outcome |-> "ret", live |-> TRUE,
                     events |-> IF is_ok THEN <<>> ELSE <<"warning">>,
                     unit |-> got,
                     result |-> [ok |-> is_ok,
                                 msg |-> <<"live", got.last_status_code,
                                           got.last_response_time>>,
                                 details |-> [url |-> "url",
                                     status_code |-> got.last_status_code,
                                     expected_status |-> got.expected_status,
                                     response_time |-> got.last_response_time,
                                     last_check |-> got.last_check_time,
                                     content_length |-> 1]]]
            ELSE LET lost == UMStore(stamped, 0, 0)
                 IN [outcome |-> "ret", live |-> TRUE, events |-> <<"error">>,
                     unit |-> lost,
                     result |-> [ok |-> FALSE, msg |-> <<"failed">>,
                                 details |-> [url |-> "url", status_code |-> 0,
                                     expected_status |-> lost.expected_status,
                                     response_time |-> 0,
                                     last_check |-> lost.last_check_time,
                                     error |-> "RequestException"]]]

\* The (bool, message) pair of ProcessHeartbeat.check as a check result.
HBResult(c) ==
    IF c.outcome = "raise" THEN <<"AttributeError">>
    ELSE [ok |-> c.value, msg |-> c.msg, details |-> <<>>]

\* check_interval of a monitor or heartbeat unit
IntervalOf(x) ==
    IF x = "pm" THEN pm.check_interval
    ELSE IF x = "um" THEN um.check_interval
    ELSE hb[x].check_interval

NoLive == [time |-> -1, outcome |-> "none", result |-> <<>>]
NoCached == [any |-> FALSE, result |-> <<>>]

\* Bookkeeping of a check() call on unit x whose outcome is c.
Logged(x, c, result) ==
    /\ callLog' = [seq |-> 1 - callLog.seq, unit |-> x, live |-> c.live,
                   outcome |-> c.outcome, result |-> result, time |-> now,
                   prev_cached |-> cachedLog[x]]
    /\ liveLog' = IF c.live
                  THEN [liveLog EXCEPT ![x] = [time |-> now,
                            outcome |-> c.outcome, result |-> result]]
                  ELSE liveLog
    /\ cachedLog' = [cachedLog EXCEPT ![x] =
                        IF c.live THEN NoCached
                        ELSE [any |-> TRUE, result |-> result]]

\* No unit is called from outside the heartbeat loop.
MonIdle ==
    /\ target = "none"
    /\ pm = NewProcessMonitor(DefaultExpectedCount, DefaultMonInterval)
    /\ um = NewUrlMonitor(HttpOk, DefaultMonInterval)
    /\ site = HttpOk
    /\ callLog = [seq |-> 0, unit |-> "none", live |-> FALSE, outcome |-> "none",
                  result |-> <<>>, time |-> 0, prev_cached |-> NoCached]
    /\ liveLog = [x \in MonUnits |-> NoLive]
    /\ cachedLog = [x \in MonUnits |-> NoCached]

\* Unit x probes the process of heartbeat unit u.
Probes(x, u) == x = u \/ (x = "pm" /\ u = "dashboard")

\* The units share no field: a run calls check() on the one unit it holds,
\* at any times, while the clock and the environment move.
InitMon ==
    /\ now = StartTime
    /\ target \in MonUnits
    /\ up \in {f \in [Units -> BOOLEAN] : \A u \in Units : f[u] => Probes(target, u)}
    /\ hb = [u \in Units |-> NewHeartbeat(DefaultCheckInterval)]
    /\ pc = [at |-> "idle", idx |-> 0]
    /\ hf = NoCall
    /\ lastCheck = NoCheck
    /\ opEvents = <<>>
    /\ passLog = [u \in Units |-> [NoPasses EXCEPT !.stayDown = ~up[u]]]
    /\ pm \in IF target = "pm"
             THEN {NewProcessMonitor(e, i) : e \in ExpectedCounts, i \in MonIntervals}
             ELSE {NewProcessMonitor(DefaultExpectedCount, DefaultMonInterval)}
    /\ um \in IF target = "um"
             THEN {NewUrlMonitor(e, i) : e \in ExpectedStatuses, i \in MonIntervals}
             ELSE {NewUrlMonitor(HttpOk, DefaultMonInterval)}
    /\ site \in IF target = "um" THEN SiteAnswers ELSE {HttpOk}
    /\ callLog = [seq |-> 0, unit |-> "none", live |-> FALSE, outcome |-> "none",
                  result |-> <<>>, time |-> 0, prev_cached |-> NoCached]
    /\ liveLog = [x \in MonUnits |-> NoLive]
    /\ cachedLog = [x \in MonUnits |-> NoCached]
    /\ FleetIdle
    /\ RunsIdle
    /\ UrlIdle
    /\ SvcIdle
    /\ LateIdle

\* A call of ProcessMonitor.check_detailed
PMCheckCall ==
    /\ target = "pm"
    /\ LET c == PMCheckDetailed(now)
       IN /\ pm' = c.unit
          /\ opEvents' = c.events
          /\ Logged("pm", c, c.result)
    /\ UNCHANGED <<now, up, hb, pc, hf, lastCheck, passLog, um, site, target, beyondMon>>

\* A call of UrlMonitor.check
UMCheckCall ==
    /\ target = "um"
    /\ \E rt \in ResponseTimes :
         LET c == UMCheck(now, rt)
         IN /\ um' = c.unit
            /\ opEvents' = c.events
            /\ Logged("um", c, c.result)
    /\ UNCHANGED <<now, up, hb, pc, hf, lastCheck, passLog, pm, site, target, beyondMon>>

\* ProcessHeartbeat.get_status: a check() outside the polling loop; an
\* exception of check() leaves get_status.
HBGetStatus(u) ==
    /\ target = u
    /\ LET c == HBCheck(u, now)
       IN /\ hb' = [hb EXCEPT ![u] = c.unit]
          /\ lastCheck' = CheckRecord(u, c, now)
          /\ opEvents' = <<>>
          /\ Logged(u, c, HBResult(c))
    /\ UNCHANGED <<now, up, pc, hf, passLog, pm, um, site, target, beyondMon>>

\* Time passes between two calls (one sleep of the monitor loop).
MonTick ==
    /\ now + MonLoopSleep <= MonMaxTime
    /\ now' = now + MonLoopSleep
    /\ UNCHANGED <<up, hb, pc, hf, lastCheck, opEvents, passLog, beyondHB>>

\* The monitored URL starts answering differently.
SiteChanges ==
    /\ target = "um"
    /\ \E a \in SiteAnswers \ {site} : site' = a
    /\ UNCHANGED <<hbVars, pm, um, target, callLog, liveLog, cachedLog, beyondMon>>

InitHB ==
    /\ now = StartTime
    /\ up \in [Units -> BOOLEAN]
    /\ hb \in {[u \in Units |-> NewHeartbeat(f[u])] : f \in [Units -> CheckIntervals]}
    /\ pc = [at |-> "check", idx |-> 1]
    /\ hf = NoCall
    /\ lastCheck = NoCheck
    /\ opEvents = <<>>
    /\ passLog = [u \in Units |-> [NoPasses EXCEPT !.stayDown = ~up[u]]]
    /\ MonIdle
    /\ FleetIdle
    /\ RunsIdle
    /\ UrlIdle
    /\ SvcIdle
    /\ LateIdle

\* HeartbeatService._run: heartbeat.check() of the next unit of the pass.
\* An exception is logged and the pass goes on with the next unit.
LoopCheck ==
    /\ pc.at = "check"
    /\ LET u == UnitOrder[pc.idx]
           c == HBCheck(u, now)
       IN /\ hb' = [hb EXCEPT ![u] = c.unit]
          /\ lastCheck' = CheckRecord(u, c, now)
          /\ opEvents' = <<>>
          /\ IF c.outcome = "ret" /\ ~c.value
             THEN /\ pc' = [at |-> "hf", idx |-> pc.idx]
                  /\ passLog' = [passLog EXCEPT ![u].failing = @ + 1]
             ELSE /\ pc' = NextUnit(pc.idx)
                  /\ passLog' = passLog
    /\ UNCHANGED <<now, up, hf, beyondHB>>

\* ProcessHeartbeat.handle_failure up to the grace sleep: the threshold
\* test, the system event and subprocess.run(restart_cmd, check=True).
HFStart ==
    /\ pc.at = "hf"
    /\ LET u == UnitOrder[pc.idx]
           k == passLog[u].failing
           call == [NoCall EXCEPT !.unit = u, !.fc0 = hb[u].failure_count,
                                  !.status0 = hb[u].last_status]
       IN IF Exceeded(u)
          THEN /\ hf' = [call EXCEPT !.events = <<"error">>, !.ret = "false"]
               /\ pc' = NextUnit(pc.idx)
               /\ up' = up
               /\ passLog' = [passLog EXCEPT ![u].exceededAt = @ \cup {k},
                                             ![u].completed = k]
          ELSE \E result \in {"started", "no_effect", "failed"} :
               /\ up' = IF result = "started" THEN [up EXCEPT ![u] = TRUE] ELSE up
               /\ IF result = "failed"
                  THEN /\ hf' = [call EXCEPT !.restarts = 1, !.ret = "false",
                                               !.events = <<"system", "error">>]
                       /\ pc' = NextUnit(pc.idx)
                       /\ passLog' = [passLog EXCEPT ![u].restartAt = @ \cup {k},
                                                     ![u].completed = k]
                  ELSE /\ hf' = [call EXCEPT !.restarts = 1,
                                               !.events = <<"system">>]
                       /\ pc' = [at |-> "grace", idx |-> pc.idx]
                       /\ passLog' = [passLog EXCEPT
                              ![u].restartAt = @ \cup {k},
                              ![u].stayDown = @ /\ result # "started"]
    /\ UNCHANGED <<now, hb, lastCheck, opEvents, beyondHB>>

\* ProcessHeartbeat.handle_failure from the grace sleep on: time.sleep(5),
\* self.check(), then the success or error event; an exception of check()
\* is caught by the except branch, which publishes an error event.
HFAfterGrace ==
    /\ pc.at = "grace"
    /\ now + GraceSleep <= MaxTime
    /\ now' = now + GraceSleep
    /\ LET u == UnitOrder[pc.idx]
           c == HBCheck(u, now + GraceSleep)
       IN /\ hb' = [hb EXCEPT ![u] = c.unit]
          /\ lastCheck' = CheckRecord(u, c, now + GraceSleep)
          /\ hf' = [hf EXCEPT
                 !.up_after_grace = IF up[u] THEN "up" ELSE "down",
                 !.recheck = IF c.outcome = "raise" THEN "raise"
                             ELSE IF c.live THEN "live" ELSE "cached",
                 !.ret = IF c.outcome = "ret" /\ c.value THEN "true" ELSE "false",
                 !.events = @ \o
                   <<IF c.outcome = "ret" /\ c.value THEN "success" ELSE "error">>]
          /\ opEvents' = <<>>
          /\ passLog' = [passLog EXCEPT ![u].completed = passLog[u].failing]
    /\ pc' = NextUnit(pc.idx)
    /\ UNCHANGED <<up, beyondHB>>

\* HeartbeatService._run: time.sleep(10) between two passes.
LoopSleepStep ==
    /\ pc.at = "sleep"
    /\ now + LoopSleep <= MaxTime
    /\ now' = now + LoopSleep
    /\ pc' = [at |-> "check", idx |-> 1]
    /\ UNCHANGED <<up, hb, hf, lastCheck, opEvents, passLog, beyondHB>>

\* The supervised process exits on its own.
ProcessExits(u) ==
    /\ up[u]
    /\ up' = [up EXCEPT ![u] = FALSE]
    /\ UNCHANGED <<now, hb, pc, hf, lastCheck, opEvents, passLog, beyondHB>>

\* The supervised process is started from outside the supervisor.
ProcessStarts(u) ==
    /\ ~up[u]
    /\ up' = [up EXCEPT ![u] = TRUE]
    /\ passLog' = [passLog EXCEPT ![u].stayDown = FALSE]
    /\ UNCHANGED <<now, hb, pc, hf, lastCheck, opEvents, beyondHB>>

NextHB ==
    \/ LoopCheck
    \/ HFStart
    \/ HFAfterGrace
    \/ LoopSleepStep
    \/ \E u \in Units : ProcessExits(u)
    \/ \E u \in Units : ProcessStarts(u)

SpecHB == InitHB /\ [][NextHB]_vars

NextMon ==
    \/ PMCheckCall
    \/ UMCheckCall
    \/ \E u \in Units : HBGetStatus(u)
    \/ MonTick
    \/ SiteChanges
    \/ \E u \in Units : Probes(target, u) /\ ProcessExits(u)
    \/ \E u \in Units : Probes(target, u) /\ ProcessStarts(u)

SpecMon == InitMon /\ [][NextMon]_vars

\* C28: a status query of a process unit leaves the unit's failure_count,
\* last_check_time and cached status as they were.
C28_StatusQueryReadOnly ==
    [][(callLog'.seq # callLog.seq /\ callLog'.unit \in Units) =>
           LET u == callLog'.unit
           IN  /\ hb'[u].failure_count = hb[u].failure_count
               /\ hb'[u].last_check_time = hb[u].last_check_time
               /\ hb'[u].last_status = hb[u].last_status]_vars

\* ------------------------------------------------------------ properties
\* C1: for a unit whose process stays down, the restart command runs on the
\* first MaxFailures failing passes of the loop and on no later pass, and
\* pass MaxFailures + 1 reports that the threshold is exceeded.
C1_RestartOnFirstPassesOnly ==
    \A u \in Units :
        passLog[u].stayDown =>
            /\ passLog[u].restartAt \subseteq 1..MaxFailures
            /\ \A k \in 1..Min(passLog[u].completed, MaxFailures) :
                   k \in passLog[u].restartAt
            /\ passLog[u].completed >= MaxFailures + 1 =>
                   (MaxFailures + 1) \in passLog[u].exceededAt

\* C2: a handle_failure() call entered with failure_count > max_failures
\* returns failure, publishes exactly an error event, runs no restart command
\* and changes neither failure_count nor the cached status; a call entered
\* with failure_count <= max_failures runs the restart command exactly once.
C2_ThresholdStopsRestart ==
    [][ /\ (pc.at = "hf" /\ pc' # pc) =>
            LET u == UnitOrder[pc.idx] IN
            /\ hb[u].failure_count > MaxFailures =>
                  /\ hf'.ret = "false"
                  /\ hf'.events = <<"error">>
                  /\ hf'.restarts = 0
                  /\ up' = up
                  /\ hb' = hb
            /\ hb[u].failure_count <= MaxFailures => hf'.restarts = 1
        /\ (pc.at = "grace" /\ pc' # pc) => hf'.restarts = 1
      ]_vars

\* A handle_failure() call that found the threshold exceeded has returned.
C2_Witness ==
    /\ hf.unit \in Units
    /\ hf.fc0 > MaxFailures
    /\ hf.ret = "false"
    /\ hf.restarts = 0

\* C3: a check() that probes while the process is running leaves
\* failure_count = 0 and the cached status running.
C3_RunningCheckResets ==
    \A u \in Units :
        (lastCheck.unit = u /\ lastCheck.live /\ lastCheck.was_up) =>
            /\ hb[u].failure_count = 0
            /\ hb[u].last_status = TRUE

\* C4: after a restart command, handle_failure() returns success with a
\* success event when the process runs at the end of the grace period, and
\* failure with an error event when it does not.
C4_RestartOutcomeReported ==
    /\ hf.up_after_grace = "up" =>
          (hf.ret = "true" /\ hf.events = <<"system", "success">>)
    /\ hf.up_after_grace = "down" =>
          (hf.ret = "false" /\ hf.events = <<"system", "error">>)

\* A check() call on unit x made within the unit's check_interval of the
\* unit's previous probing call.
InWindow(x, t) ==
    /\ liveLog[x].time # -1
    /\ t - liveLog[x].time < IntervalOf(x)

\* C5: a check() made less than check_interval after the unit's previous
\* probing check, whatever that check's outcome, probes nothing, publishes
\* no event and leaves every field of the unit unchanged.
C5_CachedCheckIsFree ==
    [][ (callLog'.seq # callLog.seq /\ InWindow(callLog'.unit, now)) =>
            /\ callLog'.live = FALSE
            /\ opEvents' = <<>>
            /\ pm' = pm
            /\ um' = um
            /\ hb' = hb
      ]_vars

\* A check() of the process monitor served from the cache after a probing
\* check that raised.
C5_Witness ==
    /\ callLog.unit = "pm"
    /\ ~callLog.live
    /\ liveLog["pm"].outcome = "raise"
    /\ callLog.time > liveLog["pm"].time

\* The most recent call on x was served from the cache filled by a probing
\* check that returned a result.
CachedAfterLive(x) ==
    /\ callLog.unit = x
    /\ ~callLog.live
    /\ callLog.outcome = "ret"
    /\ liveLog[x].outcome = "ret"
    /\ callLog.time - liveLog[x].time < IntervalOf(x)

MaxEntries == 3     \* host entries of a propagation cycle
MaxPeers == 6       \* peers of a fan-out, more than either concurrency limit

HeartbeatConcurrency == 5    \* gather_with_concurrency(5, ...) of the fan-out
TransferConcurrency == 3     \* gather_with_concurrency(3, ...) of the key copy
SshPort == 22                \* the port make_heart_beat_extra_info writes

\* utils.get_hostname_and_username() on the host that runs the cycle
LocalHost == "s1"
LocalUser == "alice"

HostNames == {LocalHost, "s2"}
UserNames == {LocalUser, "bob"}

\* A line of heartbeat.conf (host.conf for the key copy) as parse_config_file
\* returns it; reachable tells how sshd_connect() to it will end.
ConfigLines ==
    [hostname : HostNames, port : {SshPort}, username : UserNames,
     reachable : BOOLEAN, client : {FALSE}]

\* The lines of the peers of a fan-out: other hosts, other users.
PeerLines == {e \in ConfigLines : e.hostname # LocalHost /\ e.username # LocalUser}

SeqUpTo(S, n) == UNION {[1..k -> S] : k \in 0..n}

\* The test that skips the entry of the host the cycle runs on.
IsLocal(e, lh, lu) == e.hostname = lh /\ e.username = lu

\* What the body of the loop (of the task) does on entry e: the remote
\* operation it starts, or none.
PeerOperation(mode, e, lh, lu) ==
    IF mode = "transfer"
    THEN IF ~e.client THEN "none"
         ELSE IF IsLocal(e, lh, lu) THEN "none"
         ELSE "transfer_files"
    ELSE IF IsLocal(e, lh, lu) THEN "none"
         ELSE IF e.client THEN "ssh_exec_script"
         ELSE "none"

\* How a remote operation can end: exit status 0, another exit status, or an
\* exception out of the call.
CallOutcomes == {"ok", "fail", "raise"}

\* What the caller does after the remote operation ended with outcome o: a
\* failure is logged as a warning, an exception is caught and logged.
AfterCall_Propagates(o) == IF o = "raise" THEN "abort" ELSE "continue"

AfterCall(o) == "continue"

\* The semaphore of gather_with_concurrency lets one more task in.
SemaphoreFree_Always(held, n) == TRUE

SemaphoreFree(held, n) == held < n

Holding == {i \in DOMAIN task : task[i] = "holding"}

ConcurrencyOf(mode) ==
    IF mode = "async" THEN HeartbeatConcurrency
    ELSE IF mode = "transfer" THEN TransferConcurrency
    ELSE 1

NewCycle(mode) ==
    [mode |-> mode, n |-> ConcurrencyOf(mode), at |-> 0, state |-> "configured"]

InitFleet ==
    /\ \E mode \in {"legacy", "async"} : cycle = NewCycle(mode)
    /\ entries \in SeqUpTo(ConfigLines, MaxEntries)
    /\ task = <<>>
    /\ remoteCalls = <<>>
    /\ failures = 0
    /\ now = StartTime
    /\ up = [u \in Units |-> TRUE]
    /\ hb = [u \in Units |-> NewHeartbeat(DefaultCheckInterval)]
    /\ pc = [at |-> "idle", idx |-> 0]
    /\ hf = NoCall
    /\ lastCheck = NoCheck
    /\ opEvents = <<>>
    /\ passLog = [u \in Units |-> NoPasses]
    /\ MonIdle
    /\ RunsIdle
    /\ UrlIdle
    /\ SvcIdle
    /\ LateIdle

InitFanOut ==
    /\ \E mode \in {"async", "transfer"} : cycle = NewCycle(mode)
    /\ entries \in SeqUpTo(PeerLines, MaxPeers)
    /\ task = <<>>
    /\ remoteCalls = <<>>
    /\ failures = 0
    /\ now = StartTime
    /\ up = [u \in Units |-> TRUE]
    /\ hb = [u \in Units |-> NewHeartbeat(DefaultCheckInterval)]
    /\ pc = [at |-> "idle", idx |-> 0]
    /\ hf = NoCall
    /\ lastCheck = NoCheck
    /\ opEvents = <<>>
    /\ passLog = [u \in Units |-> NoPasses]
    /\ MonIdle
    /\ RunsIdle
    /\ UrlIdle
    /\ SvcIdle
    /\ LateIdle

\* HeartBeatConfigEntry(...): init_clients connects to every entry, and an
\* entry gets a client when sshd_connect() returned 0.
LoadConfig ==
    /\ cycle.state = "configured"
    /\ entries' = [i \in DOMAIN entries |->
                      [entries[i] EXCEPT !.client = entries[i].reachable]]
    /\ cycle' = [cycle EXCEPT !.state = "loaded"]
    /\ UNCHANGED <<task, remoteCalls, failures, beyondFleet>>

\* all_host_make_heart_beat / transfer_ssh_dir_to_all_hosts is entered: the
\* loop starts at the first entry, or one task per entry is handed to
\* gather_with_concurrency.  The key copy returns at once on an empty list.
BeginCycle ==
    /\ cycle.state = "loaded"
    /\ task' = [i \in DOMAIN entries |-> "waiting"]
    /\ remoteCalls' = [i \in DOMAIN entries |-> 0]
    /\ cycle' = [cycle EXCEPT
                    !.at = 1,
                    !.state = IF cycle.mode = "transfer" /\ entries = <<>>
                              THEN "returned" ELSE "running"]
    /\ UNCHANGED <<entries, failures, beyondFleet>>

\* One iteration of the loop of the synchronous all_host_make_heart_beat.
LegacyStep ==
    /\ cycle.mode = "legacy"
    /\ cycle.state = "running"
    /\ cycle.at <= Len(entries)
    /\ LET i == cycle.at
           op == PeerOperation(cycle.mode, entries[i], LocalHost, LocalUser)
       IN  IF op = "none"
           THEN /\ task' = [task EXCEPT ![i] = "done"]
                /\ cycle' = [cycle EXCEPT !.at = i + 1]
                /\ UNCHANGED <<remoteCalls, failures>>
           ELSE \E o \in CallOutcomes :
                /\ remoteCalls' = [remoteCalls EXCEPT ![i] = @ + 1]
                /\ failures' = IF o = "ok" THEN failures ELSE failures + 1
                /\ task' = [task EXCEPT ![i] = "done"]
                /\ cycle' = IF AfterCall(o) = "continue"
                            THEN [cycle EXCEPT !.at = i + 1]
                            ELSE [cycle EXCEPT !.state = "raised"]
    /\ UNCHANGED <<entries, beyondFleet>>

\* The loop of the synchronous all_host_make_heart_beat is exhausted.
LegacyReturn ==
    /\ cycle.mode = "legacy"
    /\ cycle.state = "running"
    /\ cycle.at > Len(entries)
    /\ cycle' = [cycle EXCEPT !.state = "returned"]
    /\ UNCHANGED <<entries, task, remoteCalls, failures, beyondFleet>>

\* _sem_task(i) enters `async with semaphore` (waiters are served in the
\* order of submission) and its task runs up to the remote operation, which
\* it hands to the thread pool.
Acquire(i) ==
    /\ cycle.mode \in {"async", "transfer"}
    /\ cycle.state = "running"
    /\ i \in DOMAIN task
    /\ task[i] = "waiting"
    /\ \A j \in 1..(i - 1) : task[j] # "waiting"
    /\ SemaphoreFree(Cardinality(Holding), cycle.n)
    /\ task' = [task EXCEPT ![i] = "holding"]
    /\ remoteCalls' =
           IF PeerOperation(cycle.mode, entries[i], LocalHost, LocalUser) = "none" THEN remoteCalls
           ELSE [remoteCalls EXCEPT ![i] = @ + 1]
    /\ UNCHANGED <<cycle, entries, failures, beyondFleet>>

\* The task of _sem_task(i) finishes (its remote operation, if any, has
\* ended) and the semaphore is released.
Complete(i) ==
    /\ cycle.mode \in {"async", "transfer"}
    /\ cycle.state = "running"
    /\ i \in DOMAIN task
    /\ task[i] = "holding"
    /\ task' = [task EXCEPT ![i] = "done"]
    /\ IF PeerOperation(cycle.mode, entries[i], LocalHost, LocalUser) = "none"
       THEN UNCHANGED <<failures, cycle>>
       ELSE \E o \in CallOutcomes :
            /\ failures' = IF o = "ok" THEN failures ELSE failures + 1
            /\ cycle' = IF AfterCall(o) = "continue" THEN cycle
                        ELSE [cycle EXCEPT !.state = "raised"]
    /\ UNCHANGED <<entries, remoteCalls, beyondFleet>>

\* asyncio.gather has every result; the finally clause of
\* gather_with_concurrency then calls .done() on the coroutine objects of
\* task_list, which raises AttributeError when there is at least one.
GatherEnds ==
    /\ cycle.mode \in {"async", "transfer"}
    /\ cycle.state = "running"
    /\ \A i \in DOMAIN task : task[i] = "done"
    /\ cycle' = [cycle EXCEPT
                    !.state = IF Len(task) > 0 THEN "raised" ELSE "returned"]
    /\ UNCHANGED <<entries, task, remoteCalls, failures, beyondFleet>>

NextFanOut ==
    \/ LoadConfig
    \/ BeginCycle
    \/ \E i \in DOMAIN task : Acquire(i)
    \/ \E i \in DOMAIN task : Complete(i)
    \/ GatherEnds

NextFleet ==
    \/ NextFanOut
    \/ LegacyStep
    \/ LegacyReturn

SpecFleet == InitFleet /\ [][NextFleet]_vars

\* The event loop runs every task that is ready, and a remote operation
\* ends: exec_command is called with a timeout.
SpecFanOut == InitFanOut /\ [][NextFanOut]_vars /\ WF_vars(NextFanOut)

Finished == cycle.state \in {"returned", "raised"}

\* Entry i is a connected peer: not the local (hostname, username), and
\* init_clients connected to it.
ConnectedPeer(i) ==
    /\ ~(entries[i].hostname = LocalHost /\ entries[i].username = LocalUser)
    /\ entries[i].client

\* C7: a propagation cycle starts the remote heartbeat script at most once
\* for an entry that is a connected peer and never for another entry; when
\* the cycle has ended, exactly once for each connected peer, whatever the
\* outcome of the calls; and the cycle connects to nothing.
C7_PropagationTargets ==
    /\ [](cycle.mode \in {"legacy", "async"} =>
            \A i \in DOMAIN remoteCalls :
                /\ remoteCalls[i] <= (IF ConnectedPeer(i) THEN 1 ELSE 0)
                /\ Finished => remoteCalls[i] = (IF ConnectedPeer(i) THEN 1 ELSE 0))
    /\ [][cycle.state = "running" => entries' = entries]_vars

\* Three entries of which the second is the local host and the others are
\* connected peers: the cycle has ended after two remote calls, both of
\* which failed or raised.
C7_Witness ==
    /\ Finished
    /\ Len(entries) = 3
    /\ entries[2].hostname = LocalHost /\ entries[2].username = LocalUser
    /\ ConnectedPeer(1) /\ ConnectedPeer(3)
    /\ remoteCalls = <<1, 0, 1>>
    /\ failures = 2

\* C8: at no time do more tasks hold the semaphore than the limit of the
\* cycle (5 for the heartbeat fan-out, 3 for the key copy), and every task
\* that waits for the semaphore is eventually started.
C8_BoundedFanOut ==
    /\ [](/\ cycle.mode = "async" => Cardinality(Holding) <= HeartbeatConcurrency
          /\ cycle.mode = "transfer" => Cardinality(Holding) <= TransferConcurrency)
    /\ \A i \in 1..MaxPeers :
           (i \in DOMAIN task /\ task[i] = "waiting")
               ~> (i \in DOMAIN task /\ task[i] # "waiting")

\* The heartbeat fan-out runs at its limit while a further task waits.
C8_Witness ==
    /\ cycle.mode = "async"
    /\ Cardinality(Holding) = HeartbeatConcurrency
    /\ \E i \in DOMAIN task : task[i] = "waiting"

\* C24: the heartbeat fan-out never ends by raising, and when it has
\* returned to its caller every peer task of the cycle is done.
C24_CycleReturnsWhenAllDone ==
    cycle.mode = "async" =>
        /\ cycle.state # "raised"
        /\ cycle.state = "returned" => \A i \in DOMAIN task : task[i] = "done"

\* --------------------------------------------------- runs and trigger token
MaxHosts == 3       \* hosts of a fleet of peers

\* socket.gethostname() and the login name on the hosts of a fleet.
HostOrder == <<"s1", "s2", "s3", "s4">>
UserOrder == <<"alice", "bob", "carol", "dave">>
Hosts == {HostOrder[i] : i \in 1..MaxHosts}

\* A token is the list of the fields that info.split('|') gives; <<>> is an
\* unset or empty HEART_BEAT_EXTRA_INFO.
NoToken == <<>>
TypeTexts == {"0", "1", "00"}
PortTexts == {"22", "022", "abc"}
TokenSamples ==
    {NoToken, <<"1">>, <<"0", "s2", "22">>, <<"0", "s2", "22", "bob", "x">>}
        \cup {<<t, "s2", p, "bob">> : t \in TypeTexts, p \in PortTexts}

\* int(text): the value, or ValueError
ParseInt(text) ==
    CASE text = "22" -> [ok |-> TRUE, value |-> 22]
      [] text = "022" -> [ok |-> TRUE, value |-> 22]
      [] OTHER -> [ok |-> FALSE, value |-> 0]

\* str(n) inside an f-string
FormatInt(n) == CASE n = 22 -> "22" [] OTHER -> "?"

Info(type, hostname, port, username) ==
    [kind |-> "info", type |-> type, hostname |-> hostname, port |-> port,
     username |-> username]

Raised(what) == [NoInfo EXCEPT !.kind = what]

\* Variant of parse_heart_beat_extra_info that catches the ValueError of
\* int(port) in both code lines.
ParseHeartBeatExtraInfo_CatchesAll(token, variant) ==
    IF token = NoToken THEN NoInfo
    ELSE IF Len(token) # 4 THEN NoInfo
    ELSE IF ~ParseInt(token[3]).ok THEN NoInfo
    ELSE Info(token[1], token[2], ParseInt(token[3]).value, token[4])

\* parse_heart_beat_extra_info: src/utils.py lets the ValueError of int(port)
\* out, src/src/utils/utils.py catches it and returns None.
ParseHeartBeatExtraInfo(token, variant) ==
    IF token = NoToken THEN NoInfo
    ELSE IF Len(token) # 4 THEN NoInfo
    ELSE IF ~ParseInt(token[3]).ok
         THEN IF variant = "legacy" THEN Raised("ValueError") ELSE NoInfo
    ELSE Info(token[1], token[2], ParseInt(token[3]).value, token[4])

\* Variant of need_check_and_heart_beat that reads type 0 as "go on".
NeedCheckAndHeartBeat_ZeroGoesOn(info) ==
    IF info.kind = "None" THEN TRUE ELSE info.type = "0"

\* need_check_and_heart_beat
NeedCheckAndHeartBeat(info) ==
    IF info.kind = "None" THEN TRUE ELSE info.type # "0"

\* make_heart_beat_extra_info
MakeHeartBeatExtraInfo(info, host_name, user_name) ==
    IF info.kind = "None"
    THEN <<"0", host_name, FormatInt(SshPort), user_name>>
    ELSE <<"0", info.hostname, FormatInt(info.port), info.username>>

\* heart_beat_entry.sh on the remote host hands its positional argument to
\* the heartbeat module as HEART_BEAT_EXTRA_INFO.
Deliver(token) == token

\* heartbeat.conf of a host of the fleet lists every host of the fleet, and
\* init_clients has connected to those that can be reached.
EntriesOf(h) ==
    [i \in 1..MaxHosts |->
        [hostname |-> HostOrder[i], port |-> SshPort,
         username |-> fleet[HostOrder[i]].username,
         reachable |-> fleet[HostOrder[i]].reachable,
         client |-> fleet[HostOrder[i]].reachable]]

\* main() / main_async() on host h with HEART_BEAT_EXTRA_INFO = token: what
\* the run does and the invocations it sends.
HeartBeatMain(h, token) ==
    LET variant == fleet[h].variant
        info == ParseHeartBeatExtraInfo(token, variant)
    IN  IF info.kind = "ValueError"
        THEN [info |-> info, propagated |-> FALSE, monitor_checked |-> FALSE,
              ended |-> "ValueError", sends |-> {}]
        ELSE LET need == NeedCheckAndHeartBeat(info)
                 es == EntriesOf(h)
                 targets ==
                     IF need
                     THEN {i \in DOMAIN es :
                             PeerOperation(variant, es[i], h, fleet[h].username)
                                 = "ssh_exec_script"}
                     ELSE {}
             IN [info |-> info,
                 propagated |-> need,
                 monitor_checked |-> need /\ fleet[h].check_dns = "1",
                 ended |-> IF need /\ variant = "async" /\ Len(es) > 0
                           THEN "AttributeError" ELSE "normal",
                 sends |-> {[to |-> es[i].hostname, from |-> h,
                             token |-> MakeHeartBeatExtraInfo(
                                           info, es[i].hostname, es[i].username)]
                            : i \in targets}]

RunRecord(h, origin, token, r) ==
    [host |-> h, origin |-> origin, token |-> token, info |-> r.info,
     propagated |-> r.propagated, monitor_checked |-> r.monitor_checked,
     ended |-> r.ended, sent |-> Cardinality(r.sends)]

Stamp(sends, origin) ==
    {[to |-> m.to, from |-> m.from, token |-> m.token, origin |-> origin]
        : m \in sends}

Counted(count, sends) ==
    [p \in Hosts |-> count[p] + Cardinality({m \in sends : m.to = p})]

UserOf(h) == UserOrder[CHOOSE i \in 1..MaxHosts : HostOrder[i] = h]

\* A fleet whose hosts list each other in heartbeat.conf.  Each host runs
\* one of the two code lines; the hosts are installed from one sys.conf.
InitRuns ==
    /\ \E v \in [Hosts -> {"legacy", "async"}], r \in [Hosts -> BOOLEAN],
          d \in {"0", "1"} :
          fleet = [h \in Hosts |->
                      [username |-> UserOf(h), variant |-> v[h],
                       check_dns |-> d, reachable |-> r[h]]]
    /\ inbox = {}
    /\ lastRun = NoRun
    /\ received = [root |-> "none", count |-> <<>>]
    /\ now = StartTime
    /\ up = [u \in Units |-> TRUE]
    /\ hb = [u \in Units |-> NewHeartbeat(DefaultCheckInterval)]
    /\ pc = [at |-> "idle", idx |-> 0]
    /\ hf = NoCall
    /\ lastCheck = NoCheck
    /\ opEvents = <<>>
    /\ passLog = [u \in Units |-> NoPasses]
    /\ MonIdle
    /\ FleetIdle
    /\ UrlIdle
    /\ SvcIdle
    /\ LateIdle

\* cron starts heart_beat_entry.sh on host h without an argument.
TimerRun(h) ==
    /\ inbox = {}
    /\ \E r \in {HeartBeatMain(h, NoToken)} :
           /\ lastRun' = RunRecord(h, "timer", NoToken, r)
           /\ inbox' = Stamp(r.sends, "timer")
           /\ received' = [root |-> "timer",
                           count |-> Counted([p \in Hosts |-> 0], r.sends)]
    /\ UNCHANGED <<fleet, beyondRuns>>

\* heart_beat_entry.sh is started on host h by hand or by an installer, with
\* the token tok as its argument.
ManualRun(h, tok) ==
    /\ inbox = {}
    /\ \E r \in {HeartBeatMain(h, Deliver(tok))} :
           /\ lastRun' = RunRecord(h, "manual", tok, r)
           /\ inbox' = Stamp(r.sends, "manual")
           /\ received' = [root |-> "manual",
                           count |-> Counted([p \in Hosts |-> 0], r.sends)]
    /\ UNCHANGED <<fleet, beyondRuns>>

\* The invocation m that a propagation sent runs on its target.
PeerRun(m) ==
    /\ m \in inbox
    /\ \E r \in {HeartBeatMain(m.to, Deliver(m.token))} :
           /\ lastRun' = RunRecord(m.to, "peer", m.token, r)
           /\ inbox' = (inbox \ {m}) \cup Stamp(r.sends, "peer")
           /\ received' = [received EXCEPT !.count = Counted(@, r.sends)]
    /\ UNCHANGED <<fleet, beyondRuns>>

\* exec_command of the invocation m fails or times out: no run starts.
InvocationFails(m) ==
    /\ m \in inbox
    /\ inbox' = inbox \ {m}
    /\ UNCHANGED <<fleet, lastRun, received, beyondRuns>>

NextRuns ==
    \/ \E h \in Hosts : TimerRun(h)
    \/ \E h \in Hosts, tok \in TokenSamples : ManualRun(h, tok)
    \/ \E m \in inbox : PeerRun(m)
    \/ \E m \in inbox : InvocationFails(m)

SpecRuns == InitRuns /\ [][NextRuns]_vars

\* Port texts that int() accepts.
IntTexts == {"22", "022"}

\* C9: a run started by an invocation that a propagation sent invokes no
\* remote heartbeat script, no invocation in flight was sent by such a run,
\* and a timer run leads to at most one invocation of each host.
C9_NoPingPong ==
    /\ lastRun.origin = "peer" => (lastRun.sent = 0 /\ ~lastRun.propagated)
    /\ \A m \in inbox : m.origin # "peer"
    /\ received.root = "timer" => \A p \in Hosts : received.count[p] <= 1

\* A timer run has invoked two peers, and both invocations have run.
C9_Witness ==
    /\ received.root = "timer"
    /\ Cardinality({p \in Hosts : received.count[p] = 1}) = 2
    /\ inbox = {}
    /\ lastRun.origin = "peer"
    /\ lastRun.info.kind = "info"

\* C25: the token of every invocation a propagation sends has four fields,
\* of which the second, third and fourth are the hostname, the SSH port and
\* the username of the host that sent it.
C25_TokenNamesSender ==
    \A m \in inbox :
        /\ Len(m.token) = 4
        /\ m.token[2] = m.from
        /\ m.token[3] = FormatInt(SshPort)
        /\ m.token[4] = fleet[m.from].username

MaxWall == 25        \* the wall clock is not advanced beyond this many hours

HoursPerDay == 24    \* datetime.now(...).hour runs over 0..23
HTTP_OK == 200

\* Enabled channels of NotifyEntry, in the order _send_notify calls them.
ChannelLists == {<<>>, <<"qywx">>, <<"qywx", "tg">>}

\* OK_NOTIFY_HOURS of sys.conf
OkNotifyHoursTexts == {"", "1"}

\* parse_ok_notify_hours: None for an empty text, else the set of the hours
ParseOkNotifyHours(text) ==
    CASE text = "" -> [none |-> TRUE, set |-> {}]
      [] text = "1" -> [none |-> FALSE, set |-> {1}]

\* What the monitored URL answers to requests.get
HttpAnswers == {HTTP_OK, 500, -1}        \* -1: requests.RequestException

\* check_and_write_notify_hour_file with the file holding g at hour h
CheckAndWriteNotifyHourFile(g, okHours, h) ==
    IF okHours.none \/ h \in okHours.set
    THEN IF g = h THEN [notify |-> FALSE, gate |-> g]
         ELSE [notify |-> TRUE, gate |-> h]
    ELSE [notify |-> FALSE, gate |-> g]

\* A channel builds its message: the visit-failure text reads
\* response.status_code, which a str does not have.
ChannelFormats(kind, arg) == ~(kind = "visit_fail" /\ arg = "str")

\* NotifyEntry._send_notify: src/notify_entry.py lets the exception of a
\* channel out, src/src/notify/notify_entry.py catches it per channel.
SendNotify(variant, channels, kind, arg) ==
    IF ChannelFormats(kind, arg)
    THEN [delivered |-> [i \in DOMAIN channels |-> <<channels[i], kind>>],
          raised |-> FALSE]
    ELSE [delivered |-> <<>>,
          raised |-> (variant = "legacy" /\ channels # <<>>)]

\* Variant of the test of check_monitor_url that visits whatever the
\* resolution gave.
DnsAllowsVisit_Always(dns) == TRUE

\* check_monitor_url: the visit follows a successful resolution only.
DnsAllowsVisit(dns) == dns = "ok"

\* check_monitor_url(url, notifier, sys_config_entry) with the resolution
\* ending as dns and the request as http, the file holding g, at hour h.
CheckMonitorUrl(dns, http, cfg, g, h) ==
    LET dnsNote == IF dns = "ok" THEN [delivered |-> <<>>, raised |-> FALSE]
                   ELSE SendNotify(cfg.variant, cfg.channels, "dns_fail", "gaierror")
        dnsPart == [dns |-> dns, http |-> "none", http_calls |-> 0,
                    notified |-> IF dns = "ok" THEN <<>> ELSE <<"dns_fail">>,
                    delivered |-> dnsNote.delivered, gate_before |-> g,
                    gate |-> g, ended |-> "normal"]
    IN  IF ~DnsAllowsVisit(dns) THEN dnsPart
        ELSE IF http = -1
        THEN LET n == SendNotify(cfg.variant, cfg.channels, "visit_fail", "str")
             IN [dnsPart EXCEPT
                    !.http = "exc", !.http_calls = 1,
                    !.notified = @ \o <<"visit_fail">>,
                    !.delivered = @ \o n.delivered,
                    !.ended = IF n.raised THEN "AttributeError" ELSE "normal"]
        ELSE IF http # HTTP_OK
        THEN LET n == SendNotify(cfg.variant, cfg.channels, "visit_fail", "response")
             IN [dnsPart EXCEPT
                    !.http = "bad", !.http_calls = 1,
                    !.notified = @ \o <<"visit_fail">>,
                    !.delivered = @ \o n.delivered]
        ELSE LET w == CheckAndWriteNotifyHourFile(
                          g, ParseOkNotifyHours(cfg.ok_hours), h)
                 n == SendNotify(cfg.variant, cfg.channels, "visit_ok", "response")
             IN [dnsPart EXCEPT
                    !.http = "ok", !.http_calls = 1,
                    !.notified = IF w.notify THEN @ \o <<"visit_ok">> ELSE @,
                    !.delivered = IF w.notify THEN @ \o n.delivered ELSE @,
                    !.gate = w.gate]

Capped(n) == IF n < 2 THEN n ELSE 2

Count(seq, x) == Cardinality({i \in DOMAIN seq : seq[i] = x})

InitUrl ==
    /\ wall = 0
    /\ gate = -1
    /\ urlCfg \in [ok_hours : OkNotifyHoursTexts, channels : ChannelLists,
                   variant : {"legacy", "async"}]
    /\ urlLast = NoUrlCheck
    /\ hours = NoHours
    /\ now = StartTime
    /\ up = [u \in Units |-> TRUE]
    /\ hb = [u \in Units |-> NewHeartbeat(DefaultCheckInterval)]
    /\ pc = [at |-> "idle", idx |-> 0]
    /\ hf = NoCall
    /\ lastCheck = NoCheck
    /\ opEvents = <<>>
    /\ passLog = [u \in Units |-> NoPasses]
    /\ MonIdle
    /\ FleetIdle
    /\ RunsIdle
    /\ SvcIdle
    /\ LateIdle

\* A run of the heartbeat module (each run is a process of its own) makes
\* the monitor-URL check.
UrlCheck ==
    \E dns \in {"ok", "gaierror"}, http \in HttpAnswers :
    \E r \in {CheckMonitorUrl(dns, http, urlCfg, gate, wall % HoursPerDay)} :
        /\ urlLast' = [dns |-> r.dns, http |-> r.http, http_calls |-> r.http_calls,
                       notified |-> r.notified, delivered |-> r.delivered,
                       gate_before |-> r.gate_before, ended |-> r.ended]
        /\ gate' = r.gate
        /\ hours' = [hours EXCEPT
                        !.cur.succ = IF r.http = "ok" THEN Capped(@ + 1) ELSE @,
                        !.cur.ok = Capped(@ + Count(r.notified, "visit_ok"))]
        /\ UNCHANGED <<wall, urlCfg, beyondUrl>>

\* The clock of Asia/Shanghai reaches the next hour.
HourPasses ==
    /\ wall < MaxWall
    /\ wall' = wall + 1
    /\ hours' = [cur |-> [succ |-> 0, ok |-> 0], prev |-> hours.cur]
    /\ UNCHANGED <<gate, urlCfg, urlLast, beyondUrl>>

NextUrl ==
    \/ UrlCheck
    \/ HourPasses

SpecUrl == InitUrl /\ [][NextUrl]_vars

\* Every enabled channel has sent exactly one message of the kind.
EachChannelSent(kind) ==
    \A i \in DOMAIN urlCfg.channels :
        Count(urlLast.delivered, <<urlCfg.channels[i], kind>>) = 1

\* C11: a check whose DNS resolution fails sends the DNS-failure
\* notification on every channel and issues no HTTP request; a check issues
\* at most one HTTP request, and only after its resolution succeeded.
C11_DnsFailureStopsHttp ==
    /\ urlLast.dns = "gaierror" =>
          /\ urlLast.http_calls = 0
          /\ urlLast.notified = <<"dns_fail">>
          /\ EachChannelSent("dns_fail")
    /\ urlLast.http_calls > 0 => (urlLast.dns = "ok" /\ urlLast.http_calls = 1)

\* A check whose resolution failed has notified two channels.
C11_Witness ==
    /\ urlLast.dns = "gaierror"
    /\ urlLast.delivered = <<<<"qywx", "dns_fail">>, <<"tg", "dns_fail">>>>

\* C12: with no OK_NOTIFY_HOURS, two successful checks within one clock hour
\* publish exactly one success notification, successes in two consecutive
\* hours publish two, and no hour sees more than one.
C12_OneSuccessNotePerHour ==
    urlCfg.ok_hours = "" =>
        /\ hours.cur.succ >= 2 => hours.cur.ok = 1
        /\ (hours.prev.succ >= 1 /\ hours.cur.succ >= 1) =>
               hours.prev.ok + hours.cur.ok = 2
        /\ hours.cur.ok <= 1

\* C13: a check whose HTTP phase fails (status other than 200, or request
\* exception) calls the visit-failure notification once, every enabled
\* channel sends it once, and the hour file is left as it was.
C13_EveryFailureNotified ==
    urlLast.http \in {"bad", "exc"} =>
        /\ urlLast.notified = <<"visit_fail">>
        /\ EachChannelSent("visit_fail")
        /\ urlLast.ended = "normal"
        /\ gate = urlLast.gate_before

\* C30: with OK_NOTIFY_HOURS configured, a calendar hour of the configured
\* set in which a check succeeded has seen a success notification.
C30_ConfiguredHourNotified ==
    (/\ urlCfg.ok_hours # ""
     /\ (wall % HoursPerDay) \in ParseOkNotifyHours(urlCfg.ok_hours).set
     /\ hours.cur.succ >= 1)
        => hours.cur.ok >= 1

\* --------------------------------------------------------------- event bus
MaxUserHandlers == 2    \* callbacks a caller subscribes besides the defaults

\* EventTypes.ERROR_EVENT and EventTypes.WARNING_EVENT
BusKinds == {"error_event", "warning_event"}

\* The handlers ServiceManager._register_event_handlers subscribes.
ErrorHandler == "_handle_error_event"
WarningHandler == "_handle_warning_event"

DefaultHandler(k) == IF k = "error_event" THEN ErrorHandler ELSE WarningHandler

\* Callbacks handed to subscribe_event / add_event_handler: one that
\* unsubscribes itself when it is called, one that returns, one that raises.
HandlerOrder == <<"on_once", "on_log", "on_fail">>
UserHandlers == {HandlerOrder[i] : i \in 1..Min(MaxUserHandlers, Len(HandlerOrder))}

\* The handlers that are subscribed to or unsubscribed from kind k: the
\* callbacks of a caller listen for error events.
HandlersOf(k) ==
    IF k = "error_event" THEN UserHandlers \cup {ErrorHandler}
    ELSE {WarningHandler}

Body(h) ==
    IF h = "on_once" THEN "unsubscribes"
    ELSE IF h = "on_fail" THEN "raises"
    ELSE "returns"

\* The keyword a publisher passes: publish(kind, message=m), as every
\* publisher of the services does, or publish(kind, event_data={'message': m}).
Payloads == {"message", "event_data"}

Range(list) == {list[i] : i \in DOMAIN list}

\* The parameters of a handler: the names that must be given, and whether
\* it takes **kwargs.
Signature(h) ==
    IF h = ErrorHandler THEN [required |-> {"event_type"}, varkw |-> TRUE]
    ELSE IF h = WarningHandler THEN [required |-> {"event_data"}, varkw |-> FALSE]
    ELSE [required |-> {}, varkw |-> TRUE]

\* handler(**kwargs) binds: every required parameter is among the keywords,
\* and every keyword is a parameter unless the handler takes **kwargs.
Binds(sig, keys) ==
    /\ sig.required \subseteq keys
    /\ sig.varkw \/ keys \subseteq sig.required

\* What the call handler(**kwargs) of publish does: whether it raises, the
\* levels the notifier is invoked with, whether it unsubscribes the handler.
\* _handle_warning_event calls notifier_manager.send_notification, which
\* NotifierManager does not have.
Invoke(h, payload, initialized) ==
    IF ~Binds(Signature(h), {payload})
    THEN [raised |-> TRUE, notified |-> <<>>, unsubscribes |-> FALSE]
    ELSE IF h = ErrorHandler
    THEN [raised |-> FALSE, notified |-> <<"error">>, unsubscribes |-> FALSE]
    ELSE IF h = WarningHandler
    THEN [raised |-> initialized, notified |-> <<>>, unsubscribes |-> FALSE]
    ELSE [raised |-> Body(h) = "raises", notified |-> <<>>,
          unsubscribes |-> Body(h) = "unsubscribes"]

\* list.remove(h): the first occurrence goes.
RemoveFirst(list, h) ==
    IF h \in Range(list)
    THEN LET i == CHOOSE j \in DOMAIN list :
                      list[j] = h /\ \A m \in 1..(j - 1) : list[m] # h
         IN SubSeq(list, 1, i - 1) \o SubSeq(list, i + 1, Len(list))
    ELSE list

\* Variant of subscribe without the membership test.
SubscribeList_NoTest(list, h) == Append(list, h)

\* EventBus.subscribe on the list of the kind
SubscribeList(list, h) == IF h \in Range(list) THEN list ELSE Append(list, h)

\* EventBus.unsubscribe on the list of the kind
UnsubscribeList(list, h) == IF h \in Range(list) THEN RemoveFirst(list, h) ELSE list

\* The loop of EventBus.publish over self._handlers[event_type] from
\* position i on: the list iterator reads the list itself, so a handler
\* that unsubscribes moves the handlers after it one position down.
RECURSIVE Dispatch(_, _, _, _, _)
Dispatch(list, i, payload, initialized, acc) ==
    IF i > Len(list)
    THEN [list |-> list, invoked |-> acc.invoked, raised |-> acc.raised,
          notified |-> acc.notified]
    ELSE LET h == list[i]
             r == Invoke(h, payload, initialized)
         IN Dispatch(IF r.unsubscribes THEN UnsubscribeList(list, h) ELSE list,
                     i + 1, payload, initialized,
                     [invoked |-> Append(acc.invoked, h),
                      raised |-> IF r.raised THEN acc.raised \cup {h} ELSE acc.raised,
                      notified |-> acc.notified \o r.notified])

\* service_manager = ServiceManager() at import: the default handlers are
\* subscribed, nothing is initialized or started.
InitBus ==
    /\ bus = [k \in BusKinds |-> <<DefaultHandler(k)>>]
    /\ lastOp = NoOp
    /\ lastPub = NoPublish
    /\ sm = NewServiceManager
    /\ subs = [x \in {"monitor", "heartbeat"} |-> NewSubsystem]
    /\ lastCall = NoSvcCall
    /\ watch = NoWatchPass
    /\ loopPass = NoLoopPass
    /\ now = StartTime
    /\ up = [u \in Units |-> TRUE]
    /\ hb = [u \in Units |-> NewHeartbeat(DefaultCheckInterval)]
    /\ pc = [at |-> "idle", idx |-> 0]
    /\ hf = NoCall
    /\ lastCheck = NoCheck
    /\ opEvents = <<>>
    /\ passLog = [u \in Units |-> NoPasses]
    /\ MonIdle
    /\ FleetIdle
    /\ RunsIdle
    /\ UrlIdle
    /\ LateIdle

\* EventBus.subscribe(k, h)
Subscribe(k, h) ==
    /\ bus' = [bus EXCEPT ![k] = SubscribeList(@, h)]
    /\ lastOp' = [op |-> "subscribe", kind |-> k, handler |-> h,
                  registered |-> h \in Range(bus[k])]
    /\ lastPub' = NoPublish
    /\ UNCHANGED <<sm, subs, lastCall, watch, loopPass, beyondSvc>>

\* EventBus.unsubscribe(k, h)
Unsubscribe(k, h) ==
    /\ bus' = [bus EXCEPT ![k] = UnsubscribeList(@, h)]
    /\ lastOp' = [op |-> "unsubscribe", kind |-> k, handler |-> h,
                  registered |-> h \in Range(bus[k])]
    /\ lastPub' = NoPublish
    /\ UNCHANGED <<sm, subs, lastCall, watch, loopPass, beyondSvc>>

\* EventBus.publish(k, **kwargs): except Exception around each handler call
\* keeps every exception of a handler from the publisher.
Publish(k, payload) ==
    \E r \in {Dispatch(bus[k], 1, payload, sm.services_initialized,
                       [invoked |-> <<>>, raised |-> {}, notified |-> <<>>])} :
        /\ bus' = [bus EXCEPT ![k] = r.list]
        /\ lastPub' = [kind |-> k, payload |-> payload, atCall |-> bus[k],
                       invoked |-> r.invoked, raised |-> r.raised,
                       notified |-> r.notified, escaped |-> FALSE,
                       defaults |-> DefaultHandler(k) \in Range(bus[k]),
                       initialized |-> sm.services_initialized]
        /\ lastOp' = [op |-> "publish", kind |-> k, handler |-> "none",
                      registered |-> FALSE]
        /\ UNCHANGED <<sm, subs, lastCall, watch, loopPass, beyondSvc>>

\* ServiceManager.initialize: False when the configuration does not load or
\* a component raises, else services_initialized is set.
Initialize ==
    \E ok \in BOOLEAN :
        /\ sm' = IF ok THEN [sm EXCEPT !.services_initialized = TRUE] ELSE sm
        /\ lastCall' = [NoSvcCall EXCEPT
                           !.op = "initialize",
                           !.ret = IF ok THEN "true" ELSE "false",
                           !.was_initialized = sm.services_initialized]
        /\ lastOp' = NoOp
        /\ lastPub' = NoPublish
        /\ UNCHANGED <<bus, subs, watch, loopPass, beyondSvc>>

NextBus ==
    \/ \E k \in BusKinds : \E h \in HandlersOf(k) : Subscribe(k, h)
    \/ \E k \in BusKinds : \E h \in HandlersOf(k) : Unsubscribe(k, h)
    \/ \E k \in BusKinds : \E p \in Payloads : Publish(k, p)
    \/ Initialize

SpecBus == InitBus /\ [][NextBus]_vars

\* C14: a publish invokes the handlers that were registered for the kind
\* when it was called, each once and in registration order, and no
\* exception of a handler reaches the publisher.
C14_PublishReachesAll ==
    lastPub.kind # "none" =>
        /\ lastPub.invoked = lastPub.atCall
        /\ ~lastPub.escaped

\* C15: no list holds a handler twice; subscribe of a registered handler
\* and unsubscribe of an unregistered one leave the list as it is,
\* subscribe of a new handler appends it, unsubscribe of a registered one
\* leaves the list without it, and a publish invokes no handler that was
\* not in the list when it was called.
C15_SubscriptionsAreSets ==
    /\ [](\A k \in BusKinds : \A i, j \in DOMAIN bus[k] :
              bus[k][i] = bus[k][j] => i = j)
    /\ [][LET k == lastOp'.kind
              h == lastOp'.handler
          IN /\ lastOp'.op = "subscribe" =>
                   bus'[k] = IF h \in Range(bus[k]) THEN bus[k]
                             ELSE Append(bus[k], h)
             /\ lastOp'.op = "unsubscribe" =>
                   /\ h \notin Range(bus'[k])
                   /\ h \notin Range(bus[k]) => bus'[k] = bus[k]
                   /\ \A g \in Range(bus[k]) \ {h} : g \in Range(bus'[k])
             /\ lastOp'.op = "publish" =>
                   Range(lastPub'.invoked) \subseteq Range(bus[k])]_vars

\* A subscribe of a handler that was registered already, on a list of
\* three handlers.
C15_Witness ==
    /\ lastOp.op = "subscribe"
    /\ lastOp.registered
    /\ Len(bus[lastOp.kind]) = 3

\* C16: while the default handlers are subscribed, an error event
\* published with a message has the notifier invoked at level error, and a
\* warning event, once the services are initialized, at level warning.
C16_EventsReachNotifier ==
    (lastPub.kind # "none" /\ lastPub.payload = "message" /\ lastPub.defaults) =>
        /\ lastPub.kind = "error_event" => "error" \in Range(lastPub.notified)
        /\ (lastPub.kind = "warning_event" /\ lastPub.initialized) =>
               "warning" \in Range(lastPub.notified)

\* ---------------------------------------------------------- service manager
MaxThreads == 2     \* loop threads of one subsystem that are alive at once

\* The subsystems in the order start_services and _watch_services take them.
SubOrder == <<"notifier", "backup", "monitor", "heartbeat">>

\* The subsystems that have a polling loop: MonitorManager, HeartbeatService.
Loops == {"monitor", "heartbeat"}

\* Whether the class of subsystem x defines method mth: NotifierManager
\* and BackupManager define neither start, stop nor is_running;
\* MonitorManager and HeartbeatService define start and stop.
HasMethod(x, mth) == x \in Loops /\ mth \in {"start", "stop"}

\* Variant of the test at the head of start() that never finds the
\* subsystem running.
StartIsNoOp_Never(running) == FALSE

\* if self.running: return True, at the head of start()
StartIsNoOp(running) == running

\* MonitorManager.start / HeartbeatService.start on the fields s
StartSub(s) ==
    IF StartIsNoOp(s.running) THEN s
    ELSE [running |-> TRUE, stop_requested |-> FALSE, threads |-> s.threads + 1]

\* MonitorManager.stop / HeartbeatService.stop on the fields s, when `left`
\* loop threads have not ended by the end of join(timeout=5).
StopSub(s, left) ==
    IF ~s.running THEN s
    ELSE [running |-> FALSE, stop_requested |-> TRUE, threads |-> left]

\* The calls x.start() of start_services from position i on, all inside
\* one try: the first subsystem without a start method ends them.
RECURSIVE StartAll(_, _, _)
StartAll(i, s, started) ==
    IF i > Len(SubOrder) THEN [subs |-> s, started |-> started, raised |-> FALSE]
    ELSE LET x == SubOrder[i]
         IN IF ~HasMethod(x, "start")
            THEN [subs |-> s, started |-> started, raised |-> TRUE]
            ELSE StartAll(i + 1, [s EXCEPT ![x] = StartSub(s[x])],
                          Append(started, x))

\* One pass of _watch_services from position i on, all inside one try:
\* x.is_running() and, when it is false, x.start().
RECURSIVE WatchAll(_, _, _, _)
WatchAll(i, s, examined, restarted) ==
    IF i > Len(SubOrder)
    THEN [subs |-> s, examined |-> examined, restarted |-> restarted,
          ended |-> "sleep60"]
    ELSE LET x == SubOrder[i]
         IN IF ~HasMethod(x, "is_running")
            THEN [subs |-> s, examined |-> examined, restarted |-> restarted,
                  ended |-> "sleep120"]
            ELSE IF s[x].running
            THEN WatchAll(i + 1, s, Append(examined, x), restarted)
            ELSE IF ~HasMethod(x, "start")
            THEN [subs |-> s, examined |-> Append(examined, x),
                  restarted |-> restarted, ended |-> "sleep120"]
            ELSE WatchAll(i + 1, [s EXCEPT ![x] = StartSub(s[x])],
                          Append(examined, x), restarted \cup {x})

\* What unit.check() gives the loop: ProcessHeartbeat.check returns a pair,
\* ProcessMonitor.check returns a bool; either may raise.
CheckOutcomes == {"passed", "failed", "raise"}

\* Length of the tuple check() returns, 0 for a value that is no tuple.
ReturnShape(loop) == IF loop = "heartbeat" THEN 2 ELSE 0

\* Number of targets the loop unpacks the result of check() into.
UnpackTargets(loop) == IF loop = "heartbeat" THEN 2 ELSE 3

\* What the loop does after unit.check() ended with outcome o: the
\* heartbeat loop has a try around each unit, the monitor loop has one
\* around the whole pass.
LoopStep(loop, o) ==
    IF o = "raise" \/ ReturnShape(loop) # UnpackTargets(loop)
    THEN IF loop = "heartbeat" THEN "continue" ELSE "abort"
    ELSE "continue"

\* One pass of _run over the registered units from position i on.
RECURSIVE PassOver(_, _, _, _, _)
PassOver(loop, units, i, outcome, checked) ==
    IF i > Len(units) THEN [checked |-> checked, ended |-> "sleep"]
    ELSE IF LoopStep(loop, outcome[units[i]]) = "continue"
    THEN PassOver(loop, units, i + 1, outcome, Append(checked, units[i]))
    ELSE [checked |-> Append(checked, units[i]), ended |-> "error_sleep"]

\* self.heartbeats / self.monitors: initialize() registers the dashboard
\* and the agent unit.
Registered == IF sm.services_initialized THEN UnitOrder ELSE <<>>

InitSvc == InitBus

\* ServiceManager.start_services
StartServices ==
    /\ IF ~sm.services_initialized
       THEN /\ lastCall' = [NoSvcCall EXCEPT !.op = "start_services",
                                             !.ret = "false"]
            /\ UNCHANGED <<sm, subs, bus>>
       ELSE \E r \in {StartAll(1, subs, <<>>)} :
            /\ r.subs \in [Loops -> [running : BOOLEAN, stop_requested : BOOLEAN,
                                     threads : 0..MaxThreads]]
            /\ subs' = r.subs
            /\ sm' = IF r.raised THEN sm
                     ELSE [sm EXCEPT !.stop_requested = FALSE,
                                     !.watch_threads = @ + 1,
                                     !.services_started = TRUE]
            /\ bus' = IF r.raised
                      THEN [bus EXCEPT !["error_event"] =
                               Dispatch(@, 1, "message", TRUE,
                                        [invoked |-> <<>>, raised |-> {},
                                         notified |-> <<>>]).list]
                      ELSE bus
            /\ lastCall' = [NoSvcCall EXCEPT
                   !.op = "start_services",
                   !.was_initialized = TRUE,
                   !.ret = IF r.raised THEN "false" ELSE "true",
                   !.started = r.started,
                   !.events = IF r.raised THEN <<"system_event", "error_event">>
                              ELSE <<"system_event", "success_event">>]
    /\ UNCHANGED <<lastOp, lastPub, watch, loopPass, beyondSvc>>

\* The event kinds whose handler _register_event_handlers records in
\* self.event_handlers (add_event_handler); the warning handler is
\* subscribed on the bus directly and is not recorded.
RecordedKinds == {"error_event"}

\* ServiceManager._cleanup_resources on the lists of the bus
CleanupResources(b) ==
    [k \in DOMAIN b |->
        IF k \in RecordedKinds THEN UnsubscribeList(b[k], DefaultHandler(k))
        ELSE b[k]]

\* Variant in which every bound method the cleanup list names exists.
StopListBuilt_Always(order) == TRUE

\* The list cleanup_tasks of stop_services is built: every x.stop it names
\* is an attribute of its object.
StopListBuilt(order) == \A i \in DOMAIN order : HasMethod(order[i], "stop")

\* ServiceManager.stop_services: the list of cleanup tasks names
\* notifier_manager.stop, which raises AttributeError before any task runs.
StopServices ==
    /\ IF StopListBuilt(SubOrder)
       THEN /\ \E left \in [Loops -> 0..MaxThreads] :
                 /\ \A x \in Loops : left[x] <= subs[x].threads
                 /\ subs' = [x \in Loops |-> StopSub(subs[x], left[x])]
            /\ sm' = [sm EXCEPT !.stop_requested = TRUE,
                                !.services_started = FALSE]
            /\ lastCall' = [NoSvcCall EXCEPT
                   !.op = "stop_services", !.ret = "true",
                   !.was_initialized = sm.services_initialized,
                   !.events = <<"system_event", "system_event">>]
            /\ bus' = CleanupResources(bus)
       ELSE /\ subs' = subs
            /\ sm' = [sm EXCEPT !.stop_requested = TRUE]
            /\ bus' = [bus EXCEPT !["error_event"] =
                          Dispatch(@, 1, "message", sm.services_initialized,
                                   [invoked |-> <<>>, raised |-> {},
                                    notified |-> <<>>]).list]
            /\ lastCall' = [NoSvcCall EXCEPT
                   !.op = "stop_services", !.ret = "false",
                   !.was_initialized = sm.services_initialized,
                   !.events = <<"system_event", "error_event">>]
    /\ UNCHANGED <<lastOp, lastPub, watch, loopPass, beyondSvc>>

\* monitor_manager.start() / heartbeat_service.start()
SubStart(x) ==
    /\ subs[x].running \/ subs[x].threads < MaxThreads
    /\ subs' = [subs EXCEPT ![x] = StartSub(@)]
    /\ lastCall' = [NoSvcCall EXCEPT
           !.op = "start", !.target = x, !.ret = "true",
           !.was_initialized = sm.services_initialized,
           !.was_running = subs[x].running,
           !.events = IF StartIsNoOp(subs[x].running) THEN <<>>
                      ELSE <<"system_event">>]
    /\ UNCHANGED <<bus, lastOp, lastPub, sm, watch, loopPass, beyondSvc>>

\* monitor_manager.stop() / heartbeat_service.stop()
SubStop(x) ==
    /\ \E left \in 0..subs[x].threads :
           subs' = [subs EXCEPT ![x] = StopSub(@, left)]
    /\ lastCall' = [NoSvcCall EXCEPT
           !.op = "stop", !.target = x, !.ret = "true",
           !.was_initialized = sm.services_initialized,
           !.was_running = subs[x].running,
           !.events = IF subs[x].running THEN <<"system_event">> ELSE <<>>]
    /\ UNCHANGED <<bus, lastOp, lastPub, sm, watch, loopPass, beyondSvc>>

\* A thread of _run finds stop_requested set at the head of its loop.
ThreadExit(x) ==
    /\ subs[x].stop_requested
    /\ subs[x].threads > 0
    /\ subs' = [subs EXCEPT ![x].threads = @ - 1]
    /\ lastCall' = [NoSvcCall EXCEPT !.op = "thread_exit", !.target = x,
                                     !.was_initialized = sm.services_initialized]
    /\ UNCHANGED <<bus, lastOp, lastPub, sm, watch, loopPass, beyondSvc>>

\* One pass of the loop of _run of subsystem x over its registered units.
LoopPass(x) ==
    /\ subs[x].threads > 0
    /\ ~subs[x].stop_requested
    /\ \E outcome \in [Units -> CheckOutcomes] :
       \E r \in {PassOver(x, Registered, 1, outcome, <<>>)} :
           loopPass' = [loop |-> x, registered |-> Registered,
                        checked |-> r.checked, ended |-> r.ended]
    /\ lastCall' = [NoSvcCall EXCEPT !.op = "pass", !.target = x,
                                     !.was_initialized = sm.services_initialized]
    /\ UNCHANGED <<bus, lastOp, lastPub, sm, subs, watch, beyondSvc>>

\* One pass of the loop of _watch_services.  start_services does not get
\* as far as starting its thread, so the pass is that of a direct call.
WatchPass ==
    /\ ~sm.stop_requested
    /\ \E r \in {WatchAll(1, subs, <<>>, {})} :
           /\ r.subs \in [Loops -> [running : BOOLEAN, stop_requested : BOOLEAN,
                                    threads : 0..MaxThreads]]
           /\ subs' = r.subs
           /\ watch' = [examined |-> r.examined, restarted |-> r.restarted,
                        ended |-> r.ended]
    /\ lastCall' = [NoSvcCall EXCEPT !.op = "watch_pass",
                                     !.was_initialized = sm.services_initialized]
    /\ UNCHANGED <<bus, lastOp, lastPub, sm, loopPass, beyondSvc>>

NextSvc ==
    \/ Initialize
    \/ StartServices
    \/ StopServices
    \/ \E x \in Loops : SubStart(x)
    \/ \E x \in Loops : SubStop(x)
    \/ \E x \in Loops : ThreadExit(x)
    \/ \E x \in Loops : LoopPass(x)
    \/ WatchPass

SpecSvc == InitSvc /\ [][NextSvc]_vars

\* C17: start_services() on an initialized manager starts the four
\* subsystems and the watchdog loop, sets services_started and returns
\* true; on a manager that is not initialized it returns false and starts
\* nothing.
C17_StartServicesStartsAll ==
    lastCall.op = "start_services" =>
        IF lastCall.was_initialized
        THEN /\ lastCall.ret = "true"
             /\ lastCall.started = SubOrder
             /\ sm.services_started
             /\ sm.watch_threads > 0
        ELSE /\ lastCall.ret = "false"
             /\ lastCall.started = <<>>
             /\ ~sm.services_started

\* C18: a pass of the watchdog loop examines each of the four subsystems
\* and leaves every subsystem with a polling loop running.
C18_WatchdogRestartsAll ==
    watch.ended # "none" =>
        /\ watch.examined = SubOrder
        /\ lastCall.op = "watch_pass" => \A x \in Loops : subs[x].running

\* C19: start() on a subsystem whose running flag is set, and stop() on one
\* whose flag is not set, return true, change no field of any subsystem,
\* start no thread and publish nothing.
C19_RepeatedStartStopIsNoOp ==
    [][\A x \in Loops :
          ((/\ lastCall'.target = x
            /\ \/ lastCall'.op = "start" /\ subs[x].running
               \/ lastCall'.op = "stop" /\ ~subs[x].running)
           => /\ subs' = subs
              /\ lastCall'.ret = "true"
              /\ lastCall'.events = <<>>)]_vars

\* A start() on a running subsystem with its one loop thread.
C19_Witness ==
    /\ lastCall.op = "start"
    /\ lastCall.was_running
    /\ lastCall.ret = "true"
    /\ subs[lastCall.target].running
    /\ subs[lastCall.target].threads = 1

\* C20: a pass of the heartbeat loop or of the monitor loop checks every
\* registered unit.
C20_PassChecksEveryUnit ==
    loopPass.loop # "none" => loopPass.checked = loopPass.registered

\* C26: of each service with a polling loop, at most one loop thread that
\* has not been told to stop is alive.
C26_OneLoopThread ==
    \A x \in Loops : ~subs[x].stop_requested => subs[x].threads <= 1

\* C27: when stop_services() has returned, no subsystem has running = true.
C27_StopServicesStopsAll ==
    lastCall.op = "stop_services" => \A x \in Loops : ~subs[x].running

Callers == {"loop", "query"}

\* The moment of both calls, and the times of an earlier probe: one that
\* every check_interval has outlived, and one five seconds old.
CallTime == StartTime
EarlierProbes == {CallTime - 70, CallTime - 5}

\* The unit when the calls begin: new, or after some failed probes.
RaceUnits ==
    {NewHeartbeat(i) : i \in CheckIntervals}
    \cup {[check_interval |-> i, last_check_time |-> t, last_status |-> FALSE,
           failure_count |-> n] :
              i \in CheckIntervals, t \in EarlierProbes, n \in 1..(MaxFailures + 1)}

\* ProcessHeartbeat.check run from entry to exit with no other thread in
\* between, on the fields u, with pgrep finding the process or not.
WholeCheck(u, found) ==
    IF CallTime - u.last_check_time < u.check_interval THEN u
    ELSE IF found THEN [u EXCEPT !.last_check_time = CallTime]
    ELSE [u EXCEPT !.last_check_time = CallTime, !.last_status = FALSE,
                   !.failure_count = @ + 1]

InitRace ==
    /\ \E u \in RaceUnits, found \in BOOLEAN :
          race = [unit |-> u, start |-> u,
                  thr |-> [c \in Callers |-> [at |-> "entry", count |-> 0]],
                  is_up |-> found, probes |-> 0]
    /\ listFile = [parser |-> "none", lines |-> <<>>]
    /\ load = NoLoad
    /\ lp = NoLoops
    /\ now = StartTime
    /\ up = [u \in Units |-> TRUE]
    /\ hb = [u \in Units |-> NewHeartbeat(DefaultCheckInterval)]
    /\ pc = [at |-> "idle", idx |-> 0]
    /\ hf = NoCall
    /\ lastCheck = NoCheck
    /\ opEvents = <<>>
    /\ passLog = [u \in Units |-> NoPasses]
    /\ MonIdle
    /\ FleetIdle
    /\ RunsIdle
    /\ UrlIdle
    /\ SvcIdle

\* if current_time - self.last_check_time < self.check_interval: return
CacheTest(c) ==
    /\ race.thr[c].at = "entry"
    /\ race' = [race EXCEPT !.thr[c].at =
                   IF CallTime - race.unit.last_check_time < race.unit.check_interval
                   THEN "returned_cached" ELSE "stamp"]
    /\ UNCHANGED <<listFile, load, lp, beyondLate>>

\* self.last_check_time = current_time
StampTime(c) ==
    /\ race.thr[c].at = "stamp"
    /\ race' = [race EXCEPT !.thr[c].at = "probe",
                            !.unit.last_check_time = CallTime]
    /\ UNCHANGED <<listFile, load, lp, beyondLate>>

\* run_shell_command("pgrep -f ...") and the test of its result: with the
\* process found the test calls strip() on None and check() raises.
Probe(c) ==
    /\ race.thr[c].at = "probe"
    /\ race' = [race EXCEPT !.thr[c].at = IF race.is_up THEN "raised" ELSE "load",
                            !.probes = @ + 1]
    /\ UNCHANGED <<listFile, load, lp, beyondLate>>

\* self.last_status = False, and the read of self.failure_count += 1
LoadCount(c) ==
    /\ race.thr[c].at = "load"
    /\ race' = [race EXCEPT !.thr[c].at = "store",
                            !.thr[c].count = race.unit.failure_count,
                            !.unit.last_status = FALSE]
    /\ UNCHANGED <<listFile, load, lp, beyondLate>>

\* the write of self.failure_count += 1, and the return
StoreCount(c) ==
    /\ race.thr[c].at = "store"
    /\ race' = [race EXCEPT !.thr[c].at = "returned",
                            !.unit.failure_count = race.thr[c].count + 1]
    /\ UNCHANGED <<listFile, load, lp, beyondLate>>

NextRace ==
    \E c \in Callers :
        CacheTest(c) \/ StampTime(c) \/ Probe(c) \/ LoadCount(c) \/ StoreCount(c)

SpecRace == InitRace /\ [][NextRace]_vars

\* Both calls have ended.
BothEnded ==
    /\ race.thr # <<>>
    /\ \A c \in Callers : race.thr[c].at \in {"returned_cached", "returned", "raised"}

\* C23: when a check() from the polling loop and one from a status query
\* have run concurrently on a unit, its failure_count is the one that
\* running the two calls one after the other gives.
C23_CountAsIfSerial ==
    BothEnded =>
        race.unit.failure_count =
            WholeCheck(WholeCheck(race.start, race.is_up), race.is_up).failure_count

\* ------------------------------------------------------ stopping a loop
\* The thread of HeartbeatService._run or MonitorManager._run from the
\* return of start() on, and one stop() call. Time passes in steps of five
\* seconds, the join timeout and the shortest sleep of the loops. The thread
\* of ServiceManager._watch_services is not followed: start_services raises
\* before it creates that thread.
JoinTimeout == 5        \* self.thread.join(timeout=5)
MonErrorSleep == 60     \* time.sleep(60) of the monitor loop's except
TickSeconds == JoinTimeout

Sleeping == {"sleep", "grace", "backoff"}

\* Variant of the loop test that does not read the flag.
LoopGoesOn_Always(stop_requested) == TRUE

\* while not self.stop_requested
LoopGoesOn(stop_requested) == ~stop_requested

\* What the loop does with one unit: the heartbeat loop finds check()
\* raising (caught per unit), or failing with handle_failure() declining to
\* restart, or failing with the restart command run; the monitor loop finds
\* check() unpacked or raising out of the for loop into the except clause
\* and its sleep. (Nothing the heartbeat loop calls outside its per-unit try
\* raises, so its own except clause is not entered.)
UnitOutcomes(loop) ==
    IF loop = "heartbeat" THEN {"raise", "failed", "restart"} ELSE {"ok", "raise"}

PassSleep(loop) == IF loop = "heartbeat" THEN LoopSleep ELSE MonLoopSleep

InitStop ==
    /\ \E x \in Loops :
          lp = [loop |-> x, at |-> "head", idx |-> 0, sleep |-> 0,
                stop_requested |-> FALSE, running |-> TRUE, stop |-> "none",
                waited |-> 0]
    /\ listFile = [parser |-> "none", lines |-> <<>>]
    /\ load = NoLoad
    /\ race = NoRace
    /\ now = StartTime
    /\ up = [u \in Units |-> TRUE]
    /\ hb = [u \in Units |-> NewHeartbeat(DefaultCheckInterval)]
    /\ pc = [at |-> "idle", idx |-> 0]
    /\ hf = NoCall
    /\ lastCheck = NoCheck
    /\ opEvents = <<>>
    /\ passLog = [u \in Units |-> NoPasses]
    /\ MonIdle
    /\ FleetIdle
    /\ RunsIdle
    /\ UrlIdle
    /\ SvcIdle

\* The test at the head of the while loop.
LoopHead ==
    /\ lp.at = "head"
    /\ lp' = IF LoopGoesOn(lp.stop_requested)
             THEN [lp EXCEPT !.at = "unit", !.idx = 1]
             ELSE [lp EXCEPT !.at = "exited", !.idx = 0]
    /\ UNCHANGED <<listFile, load, race, beyondLate>>

\* One turn of the for loop over the units, or its end. The heartbeat loop
\* tests the flag before each unit and breaks to its sleep.
UnitStep ==
    /\ lp.at = "unit"
    /\ IF lp.idx > Len(UnitOrder) \/ (lp.loop = "heartbeat" /\ lp.stop_requested)
       THEN lp' = [lp EXCEPT !.at = "sleep", !.idx = 0,
                             !.sleep = PassSleep(lp.loop)]
       ELSE \E o \in UnitOutcomes(lp.loop) :
              lp' = CASE o = "restart" -> [lp EXCEPT !.at = "restart"]
                      [] o = "raise" /\ lp.loop = "monitor" ->
                            [lp EXCEPT !.at = "backoff", !.idx = 0,
                                       !.sleep = MonErrorSleep]
                      [] OTHER -> [lp EXCEPT !.idx = @ + 1]
    /\ UNCHANGED <<listFile, load, race, beyondLate>>

\* subprocess.run(restart_cmd, check=True) of handle_failure returns, and
\* the grace sleep begins, or raises CalledProcessError, which
\* handle_failure catches.
RestartReturns ==
    /\ lp.at = "restart"
    /\ \E ok \in BOOLEAN :
          lp' = IF ok THEN [lp EXCEPT !.at = "grace", !.sleep = GraceSleep]
                ELSE [lp EXCEPT !.at = "unit", !.idx = @ + 1]
    /\ UNCHANGED <<listFile, load, race, beyondLate>>

\* A time.sleep() ends: after the grace sleep handle_failure checks again
\* and the loop goes to the next unit; after the others the loop is at its
\* head again.
WakeUp ==
    /\ lp.at \in Sleeping
    /\ lp.sleep = 0
    /\ lp' = IF lp.at = "grace" THEN [lp EXCEPT !.at = "unit", !.idx = @ + 1]
             ELSE [lp EXCEPT !.at = "head"]
    /\ UNCHANGED <<listFile, load, race, beyondLate>>

\* Five seconds pass for a sleeping thread and for a stop() waiting in join.
Tick ==
    /\ \/ lp.at \in Sleeping /\ lp.sleep > 0
       \/ lp.stop = "joining" /\ lp.waited < JoinTimeout /\ lp.at # "exited"
    /\ lp' = [lp EXCEPT
                !.sleep = IF lp.at \in Sleeping /\ @ > 0 THEN @ - TickSeconds ELSE @,
                !.waited = IF lp.stop = "joining" /\ @ < JoinTimeout
                           THEN @ + TickSeconds ELSE @]
    /\ UNCHANGED <<listFile, load, race, beyondLate>>

\* stop() on the running service: the flag is set and the thread joined.
StopBegin ==
    /\ lp.running
    /\ lp.stop = "none"
    /\ lp' = [lp EXCEPT !.stop_requested = TRUE, !.stop = "joining"]
    /\ UNCHANGED <<listFile, load, race, beyondLate>>

\* join returns, the thread having ended or the timeout having run out, and
\* stop() sets running = False and returns.
StopReturn ==
    /\ lp.stop = "joining"
    /\ lp.at = "exited" \/ lp.waited >= JoinTimeout
    /\ lp' = [lp EXCEPT !.running = FALSE, !.stop = "returned"]
    /\ UNCHANGED <<listFile, load, race, beyondLate>>

ThreadStep == LoopHead \/ UnitStep \/ RestartReturns \/ WakeUp

NextStop ==
    \/ LoopHead
    \/ UnitStep
    \/ RestartReturns
    \/ WakeUp
    \/ Tick
    \/ StopBegin
    \/ StopReturn

\* The thread is scheduled, time passes, and join returns.
SpecStop ==
    /\ InitStop
    /\ [][NextStop]_vars
    /\ WF_vars(ThreadStep)
    /\ WF_vars(Tick)
    /\ WF_vars(StopReturn)

MaxLines == 3      \* lines of a list file

WhiteSpace == {" "}
DigitValue == [c \in {"0", "2", "7"} |-> CASE c = "0" -> 0 [] c = "2" -> 2 [] c = "7" -> 7]
Digits == DOMAIN DigitValue

\* The loaders and the number of fields each wants on a line.
Parsers == {"HostConfigEntry", "HeartBeatConfigEntry", "HostConfig"}
FieldCount(parser) == IF parser = "HeartBeatConfigEntry" THEN 3 ELSE 4

\* Lines a file may hold: white space only, a comment, a host line
\* (h|22|a|s), a heartbeat line (h|22|a), a line of two fields (b|l), a host
\* line whose port is no integer (h|x|a|s), and a host line with white space
\* around the line and before the port ( g| 7|b|t ).
BlankLine == <<" ">>
CommentLine == <<"#", "h">>
HostLine == <<"h", "|", "2", "2", "|", "a", "|", "s">>
PeerLine == <<"h", "|", "2", "2", "|", "a">>
BadLine == <<"b", "|", "l">>
BadPortLine == <<"h", "|", "x", "|", "a", "|", "s">>
PaddedLine == <<" ", "g", "|", " ", "7", "|", "b", "|", "t", " ">>
Lines ==
    {BlankLine, CommentLine, HostLine, PeerLine, BadLine, BadPortLine,
     PaddedLine}

\* str.strip()
RECURSIVE StripLeft(_)
StripLeft(s) ==
    IF s # <<>> /\ Head(s) \in WhiteSpace THEN StripLeft(Tail(s)) ELSE s

RECURSIVE StripRight(_)
StripRight(s) ==
    IF s # <<>> /\ s[Len(s)] \in WhiteSpace
    THEN StripRight(SubSeq(s, 1, Len(s) - 1))
    ELSE s

Strip(s) == StripRight(StripLeft(s))

\* str.split('|'): the fields between the separators, empty ones included
RECURSIVE SplitFrom(_, _, _, _)
SplitFrom(s, i, field, parts) ==
    IF i > Len(s) THEN Append(parts, field)
    ELSE IF s[i] = "|" THEN SplitFrom(s, i + 1, <<>>, Append(parts, field))
    ELSE SplitFrom(s, i + 1, Append(field, s[i]), parts)

Split(s) == SplitFrom(s, 1, <<>>, <<>>)

RECURSIVE DecimalValue(_)
DecimalValue(s) ==
    IF s = <<>> THEN 0
    ELSE 10 * DecimalValue(SubSeq(s, 1, Len(s) - 1)) + DigitValue[s[Len(s)]]

\* int(text): surrounding white space is dropped, a sign may lead, and at
\* least one digit must follow; anything else is a ValueError.
IntOfText(text) ==
    LET t == Strip(text)
        signed == t # <<>> /\ Head(t) \in {"+", "-"}
        body == IF signed THEN Tail(t) ELSE t
    IN  IF body # <<>> /\ \A i \in DOMAIN body : body[i] \in Digits
        THEN [ok |-> TRUE,
              value |-> IF signed /\ Head(t) = "-"
                        THEN 0 - DecimalValue(body) ELSE DecimalValue(body)]
        ELSE [ok |-> FALSE, value |-> 0]

\* The dict appended for a line of the right number of fields.
ConfigEntry(parser, parts) ==
    IF FieldCount(parser) = 3
    THEN [hostname |-> parts[1], port |-> IntOfText(parts[2]).value,
          username |-> parts[3]]
    ELSE [hostname |-> parts[1], port |-> IntOfText(parts[2]).value,
          username |-> parts[3], password |-> parts[4]]

\* The body of the for loop over the file, for one line.
LineOutcome_SkipsSilently(parser, raw) ==
    LET line == Strip(raw)
        parts == Split(line)
    IN  IF line = <<>> \/ Head(line) = "#" THEN "ignored"
        ELSE IF Len(parts) # FieldCount(parser) THEN "ignored"
        ELSE IF ~IntOfText(parts[2]).ok THEN "invalid_port"
        ELSE "entry"
LineOutcome(parser, raw) ==
    LET line == Strip(raw)
        parts == Split(line)
    IN  IF line = <<>> \/ Head(line) = "#" THEN "ignored"
        ELSE IF Len(parts) # FieldCount(parser) THEN "invalid_format"
        ELSE IF ~IntOfText(parts[2]).ok THEN "invalid_port"
        ELSE "entry"

\* HostConfig collects the invalid lines and logs them after the loop; the
\* two older loaders log each one where it is found.
LogsAfterLoop(parser) == parser = "HostConfig"

InitParse ==
    /\ listFile \in [parser : Parsers, lines : SeqUpTo(Lines, MaxLines)]
    /\ load = [pos |-> 1, config_entries |-> <<>>, warnings |-> <<>>,
               invalid_lines |-> <<>>, state |-> "reading"]
    /\ race = NoRace
    /\ lp = NoLoops
    /\ now = StartTime
    /\ up = [u \in Units |-> TRUE]
    /\ hb = [u \in Units |-> NewHeartbeat(DefaultCheckInterval)]
    /\ pc = [at |-> "idle", idx |-> 0]
    /\ hf = NoCall
    /\ lastCheck = NoCheck
    /\ opEvents = <<>>
    /\ passLog = [u \in Units |-> NoPasses]
    /\ MonIdle
    /\ FleetIdle
    /\ RunsIdle
    /\ UrlIdle
    /\ SvcIdle

\* One iteration of `for line_number, line in enumerate(file, 1)`.
ReadLine ==
    /\ load.state = "reading"
    /\ load.pos <= Len(listFile.lines)
    /\ \E o \in {LineOutcome(listFile.parser, listFile.lines[load.pos])} :
        LET parts == Split(Strip(listFile.lines[load.pos]))
            note == [line_number |-> load.pos, reason |-> o]
        IN  load' =
              [load EXCEPT
                 !.pos = @ + 1,
                 !.config_entries =
                     IF o = "entry"
                     THEN Append(@, ConfigEntry(listFile.parser, parts))
                     ELSE @,
                 !.warnings =
                     IF o \in {"invalid_format", "invalid_port"}
                        /\ ~LogsAfterLoop(listFile.parser)
                     THEN Append(@, note) ELSE @,
                 !.invalid_lines =
                     IF o \in {"invalid_format", "invalid_port"}
                        /\ LogsAfterLoop(listFile.parser)
                     THEN Append(@, note) ELSE @]
    /\ UNCHANGED <<listFile, race, lp, beyondLate>>

\* The file is exhausted: HostConfig logs the lines it set aside, and the
\* entries are returned.
EndOfFile ==
    /\ load.state = "reading"
    /\ load.pos > Len(listFile.lines)
    /\ load' = [load EXCEPT !.warnings = @ \o load.invalid_lines,
                            !.invalid_lines = <<>>,
                            !.state = "loaded"]
    /\ UNCHANGED <<listFile, race, lp, beyondLate>>

NextParse == ReadLine \/ EndOfFile

SpecParse == InitParse /\ [][NextParse]_vars

\* A line that is neither blank nor a comment.
Meaningful(raw) == Strip(raw) # <<>> /\ Head(Strip(raw)) # "#"

\* A meaningful line with the loader's number of fields and an integer port.
WellFormed(parser, raw) ==
    /\ Meaningful(raw)
    /\ Len(Split(Strip(raw))) = FieldCount(parser)
    /\ IntOfText(Split(Strip(raw))[2]).ok

\* A meaningful line the loader must skip.
Malformed(parser, raw) == Meaningful(raw) /\ ~WellFormed(parser, raw)

\* The numbers of the well-formed (or of the malformed) lines among the
\* first n lines, ascending.
RECURSIVE LineNumbers(_, _, _, _)
LineNumbers(parser, lines, n, wellFormed) ==
    IF n = 0 THEN <<>>
    ELSE IF (IF wellFormed THEN WellFormed(parser, lines[n])
                           ELSE Malformed(parser, lines[n]))
         THEN Append(LineNumbers(parser, lines, n - 1, wellFormed), n)
         ELSE LineNumbers(parser, lines, n - 1, wellFormed)

====
